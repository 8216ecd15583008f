--------------------------- MODULE DayStatsProof ---------------------------
(***************************************************************************)
(* Proofs about the 24 hour volume, for every number of handlers, every    *)
(* window, and every bound: the sums are those of the queue whenever the   *)
(* lock is free, what a handler reads without the lock is a window it may  *)
(* show, the rows the counter stores have every swap in its day, and the   *)
(* cache hides no row.                                                     *)
(***************************************************************************)
EXTENDS DayStats, WellFoundedInduction, TLAPS

Holding == {"evict", "sub", "add0", "add1"}

Types ==
    /\ now \in Int /\ dealt \in Seq(Int)
    /\ first \in Nat \ {0} /\ last \in Nat /\ first <= last + 1 /\ last <= Len(dealt)
    /\ DOMAIN sum = Sides
    /\ mu \in Procs \cup {Free} /\ before \in Int
    /\ pc \in [Procs -> Labels]
    /\ asked \in [Clients -> [before : Int, last : Nat]]

\* Only the consumer appends, and only a handler replies.
Roles ==
    /\ pc[Consumer] \notin {"read", "lock", "query", "day", "store", "cache"}
    /\ pc[Counter] \notin {"read", "append", "add0", "add1", "cache"}
    /\ \A c \in Clients : pc[c] \notin {"lock", "append", "add0", "add1", "query", "day", "store"}

\* Who is in a critical section holds the lock.
Exclusion == \A p \in Procs : mu = p <=> pc[p] \in Holding

\* The sums between any two steps.
Evicting == \E p \in Procs : pc[p] = "sub"
Sums ==
    /\ sum[0] = IF Evicting THEN (first + 1)..last ELSE first..last
    /\ sum[1] = IF pc[Consumer] = "add1" THEN first..(last - 1) ELSE first..last
    /\ pc[Consumer] = "add1" => first <= last

\* The swaps come in the order of their times, and what left the queue was old.
Sorted ==
    /\ \A i \in 1..Len(dealt) : dealt[i] <= now
    /\ \A i, j \in 1..Len(dealt) : i <= j => dealt[i] <= dealt[j]
    /\ \A i \in 1..Len(dealt) : i < first => dealt[i] < now - Window
    /\ \A p \in Procs : pc[p] \in {"evict", "sub"} => before <= now - Window
    /\ Evicting => first <= last /\ dealt[first] < before

\* The consumer has a swap to append until it has appended it.
Waiting == pc[Consumer] \in {"evict", "sub", "append", "add0"} => last < Len(dealt)

\* What a handler knows of the queue while it evicts, and after it released the lock.
AskedOK ==
    \A c \in Clients :
        /\ pc[c] \in {"evict", "sub"} => asked[c].before = before /\ asked[c].last <= last
        /\ pc[c] = "read" =>
              /\ asked[c].last <= last
              /\ pc[Consumer] = "add1" => asked[c].last < last
              /\ \A s \in 1..asked[c].last : s >= first => dealt[s] >= asked[c].before

IInv == Types /\ Roles /\ Exclusion /\ Sums /\ Sorted /\ Waiting /\ AskedOK
-----------------------------------------------------------------------------
LEMMA WithoutFirst ==
    ASSUME NEW a \in Int, NEW b \in Int
    PROVE  (a..b) \ {a} = (a + 1)..b
OBVIOUS

LEMMA WithNext ==
    ASSUME NEW a \in Int, NEW b \in Int, a <= b + 1
    PROVE  (a..b) \cup {b + 1} = a..(b + 1)
OBVIOUS

\* The names of the goroutines differ from each other and from Free.
LEMMA Names ==
    /\ Consumer \in Procs /\ Counter \in Procs /\ Consumer # Counter
    /\ Free \notin Procs
    /\ Consumer \notin Clients /\ Counter \notin Clients
BY ClientAssumption DEF Procs, Consumer, Counter, Free

LEMMA InitIInv == Init => IInv
<1> SUFFICES ASSUME Init PROVE IInv
  OBVIOUS
<1>1. \A p \in Procs : pc[p] = "idle"
  BY DEF Init
<1>2. Types
  <2>1. pc \in [Procs -> Labels]
    BY DEF Init, Labels
  <2>2. Start \in Nat /\ Window \in Nat
    BY DayAssumption
  <2>3. asked \in [Clients -> [before : Int, last : Nat]]
    BY <2>2 DEF Init, Nothing
  <2>4. DOMAIN sum = Sides
    BY DEF Init, NoVolume
  <2>5. QED
    BY <2>1, <2>2, <2>3, <2>4 DEF Init, Types
<1>3. Roles
  BY <1>1, Names DEF Roles, Procs
<1>4. Exclusion
  BY <1>1, Names DEF Exclusion, Holding, Init
<1>5. Sums
  <2>1. ~Evicting /\ pc[Consumer] # "add1"
    BY <1>1, Names DEF Evicting
  <2>2. sum[0] = {} /\ sum[1] = {} /\ first..last = {}
    BY DEF Init, NoVolume, Sides
  <2>3. QED
    BY <2>1, <2>2 DEF Sums
<1>6. Sorted
  <2>1. dealt = <<>> /\ Len(dealt) = 0
    BY DEF Init
  <2>2. 1..Len(dealt) = {}
    BY <2>1
  <2>3. QED
    BY <1>1, <2>2 DEF Sorted, Evicting
<1>7. Waiting /\ AskedOK
  BY <1>1, Names DEF Waiting, AskedOK, Procs
<1>8. QED
  BY <1>2, <1>3, <1>4, <1>5, <1>6, <1>7 DEF IInv
-----------------------------------------------------------------------------
(* The world: the queue and the locks stay as they are *)

LEMMA DealIInv == IInv /\ Deal => IInv'
<1> SUFFICES ASSUME IInv, Deal PROVE IInv'
  OBVIOUS
<1> USE DEF IInv
<1>1. /\ dealt' = Append(dealt, now) /\ now' = now
      /\ UNCHANGED <<first, last, sum, mu, before, pc, asked>>
  BY DEF Deal, volumes
<1>2. /\ dealt \in Seq(Int) /\ now \in Int /\ last <= Len(dealt) /\ last \in Nat
      /\ first \in Nat /\ Len(dealt) \in Nat
  BY DEF Types
<1>3. /\ dealt' \in Seq(Int) /\ Len(dealt') = Len(dealt) + 1
      /\ dealt'[Len(dealt) + 1] = now
      /\ \A i \in 1..Len(dealt) : dealt'[i] = dealt[i] /\ dealt[i] \in Int
  BY <1>1, <1>2
<1>4. Types'
  BY <1>1, <1>2, <1>3 DEF Types
<1>5. Roles' /\ Exclusion' /\ Sums'
  BY <1>1 DEF Roles, Exclusion, Sums, Evicting
<1>6. Sorted'
  <2>1. first <= last + 1
    BY DEF Types
  <2>2. \A i \in 1..Len(dealt)' : dealt'[i] <= now'
    BY <1>1, <1>2, <1>3 DEF Sorted
  <2>3. \A i, j \in 1..Len(dealt)' : i <= j => dealt'[i] <= dealt'[j]
    <3>1. SUFFICES ASSUME NEW i \in 1..Len(dealt)', NEW j \in 1..Len(dealt)', i <= j
                   PROVE  dealt'[i] <= dealt'[j]
      OBVIOUS
    <3>2. CASE j = Len(dealt) + 1
      BY <2>2, <3>2, <1>1, <1>2, <1>3
    <3>3. CASE j # Len(dealt) + 1
      <4>1. i \in 1..Len(dealt) /\ j \in 1..Len(dealt)
        BY <3>1, <3>3, <1>2, <1>3
      <4>2. dealt[i] <= dealt[j]
        BY <3>1, <4>1 DEF Sorted
      <4>3. QED
        BY <4>1, <4>2, <1>3
    <3>4. QED
      BY <3>2, <3>3
  <2>4. \A i \in 1..Len(dealt)' : i < first' => dealt'[i] < now' - Window
    <3>1. SUFFICES ASSUME NEW i \in 1..Len(dealt)', i < first
                   PROVE  dealt'[i] < now - Window
      BY <1>1
    <3>2. i \in 1..Len(dealt)
      BY <3>1, <2>1, <1>2
    <3>3. QED
      BY <3>1, <3>2, <1>3 DEF Sorted
  <2>5. Evicting' => first' <= last' /\ dealt'[first'] < before'
    <3>1. SUFFICES ASSUME Evicting PROVE first <= last /\ dealt'[first] < before
      BY <1>1 DEF Evicting
    <3>2. first <= last /\ dealt[first] < before
      BY <3>1 DEF Sorted
    <3>3. first \in 1..Len(dealt)
      BY <3>2, <1>2 DEF Types
    <3>4. QED
      BY <3>2, <3>3, <1>3
  <2>6. \A p \in Procs : pc'[p] \in {"evict", "sub"} => before' <= now' - Window
    BY <1>1 DEF Sorted
  <2>7. QED
    BY <2>2, <2>3, <2>4, <2>5, <2>6 DEF Sorted
<1>7. AskedOK'
  <2>1. \A c \in Clients : asked[c].last \in Nat
    BY DEF Types
  <2>2. \A c \in Clients : pc[c] = "read" => \A s \in 1..asked[c].last : s \in 1..Len(dealt)
    BY <2>1, <1>2 DEF AskedOK
  <2>3. QED
    BY <2>2, <1>1, <1>3 DEF AskedOK
<1>8. Waiting'
  BY <1>1, <1>2, <1>3 DEF Waiting
<1>9. QED
  BY <1>4, <1>5, <1>6, <1>7, <1>8

LEMMA TickIInv == IInv /\ Tick => IInv'
<1> SUFFICES ASSUME IInv, Tick PROVE IInv'
  OBVIOUS
<1> USE DEF IInv
<1>1. /\ now' = now + 1
      /\ UNCHANGED <<dealt, first, last, sum, mu, before, pc, asked>>
  BY DEF Tick, volumes
<1>2. Types'
  BY <1>1 DEF Types
<1>3. Roles' /\ Exclusion' /\ Sums' /\ Waiting' /\ AskedOK'
  BY <1>1 DEF Roles, Exclusion, Sums, Evicting, Waiting, AskedOK
<1>4. Sorted'
  <2>1. now \in Int /\ Window \in Nat /\ before \in Int /\ \A i \in 1..Len(dealt) : dealt[i] \in Int
    BY DayAssumption DEF Types
  <2>2. \A i \in 1..Len(dealt)' : dealt'[i] <= now' /\ (i < first' => dealt'[i] < now' - Window)
    BY <1>1, <2>1 DEF Sorted
  <2>3. \A p \in Procs : pc'[p] \in {"evict", "sub"} => before' <= now' - Window
    BY <1>1, <2>1 DEF Sorted
  <2>4. QED
    BY <1>1, <2>2, <2>3 DEF Sorted, Evicting
<1>5. QED
  BY <1>2, <1>3, <1>4
-----------------------------------------------------------------------------
(* Steps without the lock *)

\* The roles after p went to l.
LEMMA RolesKept ==
    ASSUME Types, Roles, NEW p \in Procs, NEW l, Goto(p, l),
           p = Consumer => l \notin {"read", "lock", "query", "day", "store", "cache"},
           p = Counter => l \notin {"read", "append", "add0", "add1", "cache"},
           p \in Clients => l \notin {"lock", "append", "add0", "add1", "query", "day", "store"}
    PROVE  Roles'
<1>1. pc' = [pc EXCEPT ![p] = l] /\ pc \in [Procs -> Labels]
  BY DEF Goto, Types
<1>2. /\ Consumer \in Procs /\ Counter \in Procs
      /\ \A c \in Clients : c \in Procs
  BY DEF Procs
<1>3. QED
  BY <1>1, <1>2 DEF Roles

\* A goroutine outside of the critical sections goes somewhere outside of them.
LEMMA OutsideIInv ==
    ASSUME IInv, NEW p \in Procs, NEW l \in Labels \ (Holding \cup {"read"}),
           p # Consumer, pc[p] \notin Holding, Goto(p, l), Roles',
           UNCHANGED <<now, dealt, first, last, sum, mu, before>>,
           asked' \in [Clients -> [before : Int, last : Nat]],
           \A c \in Clients : c # p => asked'[c] = asked[c]
    PROVE  IInv'
<1> USE DEF IInv
<1>1. pc' = [pc EXCEPT ![p] = l] /\ pc \in [Procs -> Labels] /\ l \in Labels
  BY DEF Goto, Types
<1>2. \A q \in Procs : pc'[q] = IF q = p THEN l ELSE pc[q]
  BY <1>1
<1>3. Types'
  BY <1>1 DEF Types
<1>4. Exclusion'
  BY <1>2 DEF Exclusion
<1>5. Evicting' <=> Evicting
  BY <1>2 DEF Evicting, Holding
<1>6. pc'[Consumer] = pc[Consumer]
  BY <1>2 DEF Procs
<1>7. Sums'
  BY <1>5, <1>6 DEF Sums
<1>8. Sorted'
  BY <1>2, <1>5 DEF Sorted, Holding
<1>9. AskedOK'
  <2>1. \A c \in Clients : pc'[c] \in {"evict", "sub", "read"} => pc'[c] = pc[c] /\ asked'[c] = asked[c]
    BY <1>2 DEF Procs, Holding
  <2>2. QED
    BY <2>1, <1>6 DEF AskedOK
<1>10. Waiting'
  BY <1>6 DEF Waiting
<1>11. QED
  BY <1>3, <1>4, <1>7, <1>8, <1>9, <1>10

LEMMA CountIInv == IInv /\ Count => IInv'
<1> SUFFICES ASSUME IInv, Count PROVE IInv'
  OBVIOUS
<1>1. Counter \in Procs /\ Counter # Consumer /\ Counter \notin Clients
  BY Names
<1>2. PICK l \in {"idle", "lock", "day", "store"} :
        pc[Counter] \notin Holding /\ Goto(Counter, l)
  <2>1. CASE NoticeDay
    BY <2>1 DEF NoticeDay, Holding
  <2>2. CASE CountWeek
    BY <2>2 DEF CountWeek, Holding
  <2>3. CASE CountDay
    BY <2>3 DEF CountDay, Holding
  <2>4. CASE CountStore
    BY <2>4 DEF CountStore, Holding
  <2>5. QED
    BY <2>1, <2>2, <2>3, <2>4 DEF Count
<1>3. UNCHANGED <<now, dealt, first, last, sum, mu, before, asked>>
  BY DEF Count, NoticeDay, CountWeek, CountDay, CountStore, clock, volumes
<1>4. Roles'
  BY <1>1, <1>2, RolesKept DEF IInv
<1>5. asked' \in [Clients -> [before : Int, last : Nat]]
  BY <1>3 DEF IInv, Types
<1>6. l \in Labels \ (Holding \cup {"read"})
  BY DEF Labels, Holding
<1>7. QED
  BY <1>1, <1>2, <1>3, <1>4, <1>5, <1>6, OutsideIInv

LEMMA HandleIInv == IInv /\ (\E c \in Clients : Handle(c)) => IInv'
<1> SUFFICES ASSUME IInv, NEW c \in Clients, Handle(c) PROVE IInv'
  OBVIOUS
<1>1. c \in Procs /\ c # Consumer /\ c # Counter
  BY Names DEF Procs
<1>2. PICK l \in {"idle", "cache"} : pc[c] \notin Holding /\ Goto(c, l)
  <2>1. CASE Reply(c)
    BY <2>1 DEF Reply, Holding
  <2>2. CASE StatDay(c)
    BY <2>2 DEF StatDay, Holding
  <2>3. CASE StatPoolVolumes(c)
    BY <2>3 DEF StatPoolVolumes, StatDone, Holding
  <2>4. QED
    BY <2>1, <2>2, <2>3 DEF Handle
<1>3. UNCHANGED <<now, dealt, first, last, sum, mu, before>>
  BY DEF Handle, Reply, StatDay, StatPoolVolumes, clock, volumes
<1>4. Roles'
  BY <1>1, <1>2, RolesKept DEF IInv
<1>5. asked' = asked \/ asked' = [asked EXCEPT ![c] = Nothing]
  BY DEF Handle, Reply, StatDay, StatPoolVolumes
<1>6. Nothing \in [before : Int, last : Nat]
  BY DayAssumption DEF Nothing
<1>7. asked \in [Clients -> [before : Int, last : Nat]]
  BY DEF IInv, Types
<1>8. /\ asked' \in [Clients -> [before : Int, last : Nat]]
      /\ \A d \in Clients : d # c => asked'[d] = asked[d]
  BY <1>5, <1>6, <1>7
<1>9. l \in Labels \ (Holding \cup {"read"})
  BY DEF Labels, Holding
<1>10. QED
  BY <1>1, <1>2, <1>3, <1>4, <1>8, <1>9, OutsideIInv
-----------------------------------------------------------------------------
(* Steps with the lock *)

\* What stays true of the locks, and of who evicts, when p holds the lock and goes
\* to a label of the critical section.
LEMMA ExclusionKept ==
    ASSUME Types, Exclusion, NEW p \in Procs, NEW l \in Holding, Goto(p, l),
           mu = p \/ mu = Free, mu' = p
    PROVE  /\ Exclusion'
           /\ \A q \in Procs : pc'[q] = IF q = p THEN l ELSE pc[q]
           /\ \A q \in Procs : q # p => pc[q] \notin Holding
           /\ pc' \in [Procs -> Labels]
<1>1. pc' = [pc EXCEPT ![p] = l] /\ pc \in [Procs -> Labels] /\ l \in Labels
  BY DEF Goto, Types, Holding, Labels
<1>2. \A q \in Procs : pc'[q] = IF q = p THEN l ELSE pc[q]
  BY <1>1
<1>3. \A q \in Procs : q # p => pc[q] \notin Holding
  BY Names DEF Exclusion
<1>4. QED
  BY <1>1, <1>2, <1>3 DEF Exclusion

\* And when p leaves it.
LEMMA ExclusionLeft ==
    ASSUME Types, Exclusion, NEW p \in Procs, NEW l \in Labels \ Holding, Goto(p, l),
           mu = p, mu' = Free
    PROVE  /\ Exclusion'
           /\ \A q \in Procs : pc'[q] = IF q = p THEN l ELSE pc[q]
           /\ \A q \in Procs : q # p => pc[q] \notin Holding
           /\ pc' \in [Procs -> Labels]
<1>1. pc' = [pc EXCEPT ![p] = l] /\ pc \in [Procs -> Labels]
  BY DEF Goto, Types
<1>2. \A q \in Procs : pc'[q] = IF q = p THEN l ELSE pc[q]
  BY <1>1
<1>3. \A q \in Procs : q # p => pc[q] \notin Holding
  BY DEF Exclusion
<1>4. \A q \in Procs : Free # q
  BY Names
<1>5. QED
  BY <1>1, <1>2, <1>3, <1>4 DEF Exclusion

LEMMA LockIInv == ASSUME NEW p \in Procs PROVE IInv /\ Lock(p) => IInv'
<1> SUFFICES ASSUME IInv, Lock(p) PROVE IInv'
  OBVIOUS
<1> USE DEF IInv
<1>1. /\ mu = Free /\ mu' = p /\ before' = now - Window /\ Goto(p, "evict")
      /\ UNCHANGED <<now, dealt, first, last, sum>>
      /\ asked' = IF p \in Clients
                  THEN [asked EXCEPT ![p] = [before |-> now - Window, last |-> last]]
                  ELSE asked
  BY DEF Lock, clock
<1>2. now - Window \in Int /\ last \in Nat
  BY DayAssumption DEF Types
<1>3. /\ Exclusion' /\ pc' \in [Procs -> Labels]
      /\ \A q \in Procs : pc'[q] = IF q = p THEN "evict" ELSE pc[q]
      /\ \A q \in Procs : pc[q] \notin Holding
  <2>1. \A q \in Procs : pc[q] \notin Holding
    BY <1>1, Names DEF Exclusion
  <2>2. QED
    BY <1>1, <2>1, ExclusionKept DEF Holding
<1>4. Roles'
  BY <1>1, RolesKept
<1>5. Types'
  <2>1. asked' \in [Clients -> [before : Int, last : Nat]]
    BY <1>1, <1>2 DEF Types
  <2>2. QED
    BY <1>1, <1>2, <1>3, <2>1 DEF Types
<1>6. ~Evicting /\ ~Evicting' /\ pc[Consumer] # "add1" /\ pc'[Consumer] # "add1"
  BY <1>3, Names DEF Evicting, Holding
<1>7. Sums'
  BY <1>1, <1>6 DEF Sums
<1>8. Sorted'
  <2>1. \A q \in Procs : pc'[q] \in {"evict", "sub"} => before' <= now' - Window
    BY <1>1, <1>2 DEF Types
  <2>2. QED
    BY <1>1, <1>6, <2>1 DEF Sorted
<1>9. AskedOK'
  <2>1. SUFFICES ASSUME NEW c \in Clients
                 PROVE  /\ pc'[c] \in {"evict", "sub"} =>
                              asked'[c].before = before' /\ asked'[c].last <= last'
                        /\ pc'[c] = "read" =>
                              /\ asked'[c].last <= last'
                              /\ \A s \in 1..asked'[c].last : s >= first' => dealt'[s] >= asked'[c].before
    BY <1>6 DEF AskedOK
  <2>2. c \in Procs
    BY DEF Procs
  <2>3. CASE c = p
    <3>1. asked'[c] = [before |-> now - Window, last |-> last]
      BY <2>3, <1>1 DEF Types
    <3>2. pc'[c] = "evict"
      BY <2>2, <2>3, <1>3
    <3>3. QED
      BY <3>1, <3>2, <1>1, <1>2
  <2>4. CASE c # p
    <3>1. asked'[c] = asked[c]
      BY <2>4, <1>1 DEF Types
    <3>2. pc'[c] = pc[c] /\ pc[c] \notin {"evict", "sub"}
      BY <2>2, <2>4, <1>3 DEF Holding
    <3>3. QED
      BY <3>1, <3>2, <1>1 DEF AskedOK
  <2>5. QED
    BY <2>3, <2>4
<1>10. Waiting'
  <2>1. p = Consumer => last < Len(dealt)
    BY Names DEF Lock, Calls
  <2>2. QED
    BY <2>1, <1>1, <1>3, Names DEF Waiting
<1>11. QED
  BY <1>3, <1>4, <1>5, <1>7, <1>8, <1>9, <1>10

LEMMA SubFirstIInv == ASSUME NEW p \in Procs PROVE IInv /\ SubFirst(p) => IInv'
<1> SUFFICES ASSUME IInv, SubFirst(p) PROVE IInv'
  OBVIOUS
<1> USE DEF IInv
<1>1. /\ pc[p] = "evict" /\ first <= last /\ dealt[first] < before
      /\ sum' = [sum EXCEPT ![0] = @ \ {first}]
      /\ Goto(p, "sub")
      /\ UNCHANGED <<now, dealt, first, last, mu, before, asked>>
  BY DEF SubFirst, Old, clock
<1>2. mu = p
  BY <1>1 DEF Exclusion, Holding
<1>3. /\ Exclusion' /\ pc' \in [Procs -> Labels]
      /\ \A q \in Procs : pc'[q] = IF q = p THEN "sub" ELSE pc[q]
      /\ \A q \in Procs : q # p => pc[q] \notin Holding
  BY <1>1, <1>2, ExclusionKept DEF Holding
<1>4. Roles'
  BY <1>1, RolesKept
<1>5. Types'
  BY <1>1, <1>3 DEF Types
<1>6. Evicting' /\ ~Evicting /\ pc[Consumer] # "add1" /\ pc'[Consumer] # "add1"
  BY <1>1, <1>3, Names DEF Evicting, Holding
<1>7. Sums'
  <2>1. first \in Int /\ last \in Int
    BY DEF Types
  <2>2. sum'[0] = sum[0] \ {first} /\ sum'[1] = sum[1]
    BY <1>1 DEF Types, Sides
  <2>3. QED
    BY <1>1, <1>6, <2>1, <2>2, WithoutFirst DEF Sums
<1>8. Sorted'
  <2>1. \A q \in Procs : pc'[q] \in {"evict", "sub"} => before' <= now' - Window
    BY <1>1, <1>3 DEF Sorted
  <2>2. QED
    BY <1>1, <2>1 DEF Sorted
<1>9. AskedOK'
  <2>1. \A c \in Clients : c \in Procs
    BY DEF Procs
  <2>2. \A c \in Clients : /\ pc'[c] \in {"evict", "sub"} => pc[c] \in {"evict", "sub"}
                           /\ pc'[c] = "read" => pc[c] = "read"
    BY <1>1, <1>3, <2>1
  <2>3. QED
    BY <1>1, <1>6, <2>2 DEF AskedOK
<1>10. Waiting'
  BY <1>1, <1>3, Names DEF Waiting
<1>11. QED
  BY <1>3, <1>4, <1>5, <1>7, <1>8, <1>9, <1>10

LEMMA SubSecondIInv == ASSUME NEW p \in Procs PROVE IInv /\ SubSecond(p) => IInv'
<1> SUFFICES ASSUME IInv, SubSecond(p) PROVE IInv'
  OBVIOUS
<1> USE DEF IInv
<1>1. /\ pc[p] = "sub"
      /\ sum' = [sum EXCEPT ![1] = @ \ {first}] /\ first' = first + 1
      /\ Goto(p, "evict")
      /\ UNCHANGED <<now, dealt, last, mu, before, asked>>
  BY DEF SubSecond, clock
<1>2. mu = p
  BY <1>1 DEF Exclusion, Holding
<1>3. /\ Exclusion' /\ pc' \in [Procs -> Labels]
      /\ \A q \in Procs : pc'[q] = IF q = p THEN "evict" ELSE pc[q]
      /\ \A q \in Procs : q # p => pc[q] \notin Holding
  BY <1>1, <1>2, ExclusionKept DEF Holding
<1>4. Roles'
  BY <1>1, RolesKept
<1>5. Evicting /\ ~Evicting' /\ pc[Consumer] # "add1" /\ pc'[Consumer] # "add1"
  BY <1>1, <1>3, Names DEF Evicting, Holding
<1>6. first <= last /\ dealt[first] < before /\ before <= now - Window
  BY <1>1, <1>5 DEF Sorted
<1>7. first \in Int /\ last \in Int /\ first \in 1..Len(dealt) /\ dealt \in Seq(Int)
  BY <1>6 DEF Types
<1>8. Types'
  BY <1>1, <1>3, <1>6 DEF Types
<1>9. Sums'
  <2>1. sum'[1] = sum[1] \ {first} /\ sum'[0] = sum[0]
    BY <1>1 DEF Types, Sides
  <2>2. QED
    BY <1>1, <1>5, <1>7, <2>1, WithoutFirst DEF Sums
<1>10. Sorted'
  <2>1. \A q \in Procs : pc'[q] \in {"evict", "sub"} => before' <= now' - Window
    BY <1>1, <1>3 DEF Sorted
  <2>2. dealt[first] \in Int /\ before \in Int /\ now - Window \in Int
    BY <1>7, DayAssumption DEF Types
  <2>3. dealt[first] < now - Window
    BY <2>2, <1>6
  <2>4. \A i \in 1..Len(dealt) : i < first + 1 => dealt[i] < now - Window
    BY <2>3, <1>7 DEF Sorted
  <2>5. QED
    BY <1>1, <1>5, <2>1, <2>4 DEF Sorted
<1>11. AskedOK'
  <2>1. \A c \in Clients : c \in Procs
    BY DEF Procs
  <2>2. \A c \in Clients : /\ pc'[c] \in {"evict", "sub"} => pc[c] \in {"evict", "sub"}
                           /\ pc'[c] = "read" => pc[c] = "read"
    BY <1>1, <1>3, <2>1
  <2>3. \A c \in Clients : asked[c].last \in Nat
    BY DEF Types
  <2>4. \A s \in Int : s >= first' => s >= first
    BY <1>1, <1>7
  <2>5. QED
    BY <1>1, <1>5, <2>2, <2>3, <2>4 DEF AskedOK
<1>12. Waiting'
  BY <1>1, <1>3, Names DEF Waiting
<1>13. QED
  BY <1>3, <1>4, <1>8, <1>9, <1>10, <1>11, <1>12

LEMMA UnlockIInv == ASSUME NEW p \in Procs PROVE IInv /\ Unlock(p) => IInv'
<1> SUFFICES ASSUME IInv, Unlock(p) PROVE IInv'
  OBVIOUS
<1> USE DEF IInv
<1>1. /\ pc[p] = "evict" /\ ~Old /\ mu' = Free /\ before' = 0
      /\ Goto(p, AfterEvict(p))
      /\ UNCHANGED <<now, dealt, first, last, sum, asked>>
  BY DEF Unlock, clock
<1> DEFINE l == AfterEvict(p)
<1>2. /\ l \in Labels \ Holding /\ l \in {"append", "query", "read"}
      /\ p = Consumer => l = "append"
      /\ p = Counter => l = "query"
      /\ p \in Clients => l = "read"
  BY Names DEF AfterEvict, Labels, Holding, Procs
<1>3. mu = p
  BY <1>1 DEF Exclusion, Holding
<1> HIDE DEF l
<1>4. /\ Exclusion' /\ pc' \in [Procs -> Labels]
      /\ \A q \in Procs : pc'[q] = IF q = p THEN l ELSE pc[q]
      /\ \A q \in Procs : q # p => pc[q] \notin Holding
  <2>1. Goto(p, l)
    BY <1>1 DEF l
  <2>2. QED
    BY <2>1, <1>1, <1>2, <1>3, ExclusionLeft
<1>5. Roles'
  <2>1. Goto(p, l)
    BY <1>1 DEF l
  <2>2. QED
    BY <2>1, <1>2, RolesKept
<1>6. Types'
  BY <1>1, <1>4 DEF Types
<1>7. ~Evicting /\ ~Evicting' /\ pc[Consumer] # "add1" /\ pc'[Consumer] # "add1"
  BY <1>1, <1>2, <1>4, Names DEF Evicting, Holding
<1>8. Sums'
  BY <1>1, <1>7 DEF Sums
<1>9. \A q \in Procs : pc'[q] \notin {"evict", "sub"}
  BY <1>2, <1>4 DEF Holding
<1>10. Sorted'
  BY <1>1, <1>7, <1>9 DEF Sorted
<1>11. AskedOK'
  <2>1. SUFFICES ASSUME NEW c \in Clients, pc'[c] = "read"
                 PROVE  /\ asked[c].last <= last
                        /\ \A s \in 1..asked[c].last : s >= first => dealt[s] >= asked[c].before
    <3>1. \A c \in Clients : pc'[c] \notin {"evict", "sub"}
      BY <1>9 DEF Procs
    <3>2. QED
      BY <3>1, <1>1, <1>7 DEF AskedOK
  <2>2. c \in Procs
    BY DEF Procs
  <2>3. CASE c # p
    BY <2>1, <2>2, <2>3, <1>4 DEF AskedOK
  <2>4. CASE c = p
    <3>1. asked[c].before = before /\ asked[c].last <= last
      BY <2>4, <1>1 DEF AskedOK
    <3>2. ASSUME NEW s \in 1..asked[c].last, s >= first PROVE dealt[s] >= before
      <4>1. /\ asked[c].last \in Nat /\ last \in Nat /\ last <= Len(dealt) /\ first \in Nat \ {0}
            /\ Len(dealt) \in Nat /\ before \in Int
        BY DEF Types
      <4>2. s \in 1..Len(dealt) /\ first \in 1..Len(dealt) /\ first <= last
        BY <3>1, <3>2, <4>1
      <4>3. dealt[first] <= dealt[s]
        BY <3>2, <4>2 DEF Sorted
      <4>4. ~(dealt[first] < before)
        BY <1>1, <4>2 DEF Old
      <4>5. dealt[first] \in Int /\ dealt[s] \in Int
        BY <4>2 DEF Types
      <4>6. QED
        BY <4>1, <4>3, <4>4, <4>5
    <3>3. QED
      BY <3>1, <3>2
  <2>5. QED
    BY <2>3, <2>4
<1>12. Waiting'
  BY <1>1, <1>4, Names DEF Waiting
<1>13. QED
  BY <1>4, <1>5, <1>6, <1>8, <1>10, <1>11, <1>12

LEMMA LockAgainIInv == IInv /\ LockAgain => IInv'
<1> SUFFICES ASSUME IInv, LockAgain PROVE IInv'
  OBVIOUS
<1> USE DEF IInv
<1>1. /\ pc[Consumer] = "append" /\ mu = Free /\ mu' = Consumer
      /\ Goto(Consumer, "add0")
      /\ UNCHANGED <<now, dealt, first, last, sum, before, asked>>
  BY DEF LockAgain, clock
<1>2. Consumer \in Procs /\ Consumer # Counter /\ Consumer \notin Clients
  BY Names
<1>3. /\ Exclusion' /\ pc' \in [Procs -> Labels]
      /\ \A q \in Procs : pc'[q] = IF q = Consumer THEN "add0" ELSE pc[q]
  BY <1>1, <1>2, ExclusionKept DEF Holding
<1>4. Roles'
  BY <1>1, <1>2, RolesKept
<1>5. Types'
  BY <1>1, <1>2, <1>3 DEF Types
<1>6. (Evicting' <=> Evicting) /\ pc[Consumer] # "add1" /\ pc'[Consumer] # "add1"
  BY <1>1, <1>2, <1>3 DEF Evicting
<1>7. Sums' /\ Sorted'
  BY <1>1, <1>3, <1>6 DEF Sums, Sorted
<1>8. \A c \in Clients : pc'[c] = pc[c]
  BY <1>2, <1>3 DEF Procs
<1>9. AskedOK'
  BY <1>1, <1>6, <1>8 DEF AskedOK
<1>10. Waiting'
  BY <1>1, <1>3 DEF Waiting
<1>11. QED
  BY <1>3, <1>4, <1>5, <1>7, <1>9, <1>10

LEMMA AddFirstIInv == IInv /\ AddFirst => IInv'
<1> SUFFICES ASSUME IInv, AddFirst PROVE IInv'
  OBVIOUS
<1> USE DEF IInv
<1>1. /\ pc[Consumer] = "add0" /\ last' = last + 1
      /\ sum' = [sum EXCEPT ![0] = @ \cup {last + 1}]
      /\ Goto(Consumer, "add1")
      /\ UNCHANGED <<now, dealt, first, mu, before, asked>>
  BY DEF AddFirst, clock
<1>2. Consumer \in Procs /\ Consumer # Counter /\ Consumer \notin Clients
  BY Names
<1>3. mu = Consumer
  BY <1>1, <1>2 DEF Exclusion, Holding
<1>4. /\ Exclusion' /\ pc' \in [Procs -> Labels]
      /\ \A q \in Procs : pc'[q] = IF q = Consumer THEN "add1" ELSE pc[q]
      /\ \A q \in Procs : q # Consumer => pc[q] \notin Holding
  BY <1>1, <1>2, <1>3, ExclusionKept DEF Holding
<1>5. Roles'
  BY <1>1, <1>2, RolesKept
<1>6. first \in Int /\ last \in Nat /\ first <= last + 1
  BY DEF Types
<1>7. Types'
  <2>1. last + 1 <= Len(dealt)
    BY <1>1, <1>6 DEF Waiting, Types
  <2>2. QED
    BY <1>1, <1>4, <1>6, <2>1 DEF Types
<1>8. ~Evicting /\ ~Evicting' /\ pc[Consumer] # "add1" /\ pc'[Consumer] = "add1"
  BY <1>1, <1>2, <1>4 DEF Evicting, Holding
<1>9. Sums'
  <2>1. sum'[0] = sum[0] \cup {last + 1} /\ sum'[1] = sum[1]
    BY <1>1 DEF Types, Sides
  <2>2. first..((last + 1) - 1) = first..last
    BY <1>6
  <2>3. QED
    <3>1. sum[0] = first..last /\ sum[1] = first..last
      BY <1>8 DEF Sums
    <3>2. sum'[0] = first..last' /\ sum'[1] = first..(last' - 1)
      BY <3>1, <2>1, <2>2, <1>1, <1>6, WithNext
    <3>3. first <= last'
      BY <1>1, <1>6
    <3>4. QED
      BY <3>2, <3>3, <1>1, <1>8 DEF Sums
<1>10. \A q \in Procs : pc'[q] \notin {"evict", "sub"}
  BY <1>4 DEF Holding
<1>11. Sorted'
  BY <1>1, <1>8, <1>10 DEF Sorted
<1>12. Waiting'
  BY <1>8 DEF Waiting
<1>13. AskedOK'
  <2>1. \A c \in Clients : pc'[c] = pc[c] /\ pc'[c] \notin {"evict", "sub"}
    BY <1>2, <1>4, <1>10 DEF Procs
  <2>2. \A c \in Clients : asked[c].last \in Nat
    BY DEF Types
  <2>3. \A n \in Nat : n <= last => n < last' /\ n <= last'
    BY <1>1, <1>6
  <2>4. QED
    BY <1>1, <2>1, <2>2, <2>3 DEF AskedOK
<1>14. QED
  BY <1>4, <1>5, <1>7, <1>9, <1>11, <1>12, <1>13

LEMMA AddSecondIInv == IInv /\ AddSecond => IInv'
<1> SUFFICES ASSUME IInv, AddSecond PROVE IInv'
  OBVIOUS
<1> USE DEF IInv
<1>1. /\ pc[Consumer] = "add1" /\ mu' = Free
      /\ sum' = [sum EXCEPT ![1] = @ \cup {last}]
      /\ Goto(Consumer, "idle")
      /\ UNCHANGED <<now, dealt, first, last, before, asked>>
  BY DEF AddSecond, clock
<1>2. Consumer \in Procs /\ Consumer # Counter /\ Consumer \notin Clients
  BY Names
<1>3. mu = Consumer
  BY <1>1, <1>2 DEF Exclusion, Holding
<1>4. /\ Exclusion' /\ pc' \in [Procs -> Labels]
      /\ \A q \in Procs : pc'[q] = IF q = Consumer THEN "idle" ELSE pc[q]
      /\ \A q \in Procs : q # Consumer => pc[q] \notin Holding
  BY <1>1, <1>2, <1>3, ExclusionLeft DEF Holding, Labels
<1>5. Roles'
  BY <1>1, <1>2, RolesKept
<1>6. Types'
  BY <1>1, <1>4 DEF Types
<1>7. ~Evicting /\ ~Evicting' /\ pc'[Consumer] # "add1"
  BY <1>1, <1>2, <1>4 DEF Evicting, Holding
<1>8. Sums'
  <2>1. first \in Int /\ last \in Int /\ first <= last
    BY <1>1 DEF Types, Sums
  <2>2. sum'[1] = sum[1] \cup {last} /\ sum'[0] = sum[0]
    BY <1>1 DEF Types, Sides
  <2>3. (first..(last - 1)) \cup {last} = first..last
    BY <2>1
  <2>4. QED
    BY <1>1, <1>7, <2>2, <2>3 DEF Sums
<1>9. \A q \in Procs : pc'[q] \notin {"evict", "sub"}
  BY <1>4 DEF Holding
<1>10. Sorted'
  BY <1>1, <1>7, <1>9 DEF Sorted
<1>11. Waiting'
  BY <1>2, <1>4 DEF Waiting
<1>12. AskedOK'
  <2>1. \A c \in Clients : pc'[c] = pc[c] /\ pc'[c] \notin {"evict", "sub"}
    BY <1>2, <1>4, <1>9 DEF Procs
  <2>2. QED
    BY <1>1, <1>7, <2>1 DEF AskedOK
<1>13. QED
  BY <1>4, <1>5, <1>6, <1>8, <1>10, <1>11, <1>12
-----------------------------------------------------------------------------
(* The theorems *)

LEMMA NextIInv == IInv /\ [Next]_vars => IInv'
<1> SUFFICES ASSUME IInv, [Next]_vars PROVE IInv'
  OBVIOUS
<1>1. CASE Deal
  BY <1>1, DealIInv
<1>2. CASE Tick
  BY <1>2, TickIInv
<1>3. ASSUME NEW p \in Procs, Lock(p) \/ SubFirst(p) \/ SubSecond(p) \/ Unlock(p) PROVE IInv'
  BY <1>3, LockIInv, SubFirstIInv, SubSecondIInv, UnlockIInv
<1>4. CASE LockAgain \/ AddFirst \/ AddSecond
  BY <1>4, LockAgainIInv, AddFirstIInv, AddSecondIInv
<1>5. CASE Count
  BY <1>5, CountIInv
<1>6. CASE \E c \in Clients : Handle(c)
  BY <1>6, HandleIInv
<1>7. CASE UNCHANGED vars
  BY <1>7 DEF vars, clock, volumes, IInv, Types, Roles, Exclusion, Sums, Evicting, Sorted,
              Waiting, AskedOK
<1>8. QED
  BY <1>1, <1>2, <1>3, <1>4, <1>5, <1>6, <1>7 DEF Next

LEMMA IInvSums == IInv => SumIsWindow
<1> SUFFICES ASSUME IInv, mu = Free PROVE \A k \in Sides : sum[k] = first..last
  BY DEF SumIsWindow
<1>1. \A p \in Procs : pc[p] \notin Holding
  BY Names DEF IInv, Exclusion
<1>2. ~Evicting /\ pc[Consumer] # "add1"
  BY <1>1, Names DEF Evicting, Holding
<1>3. QED
  BY <1>2 DEF IInv, Sums, Sides

LEMMA IInvReport == IInv => ReportIsWindow
<1> SUFFICES ASSUME IInv, NEW c \in Clients, pc[c] = "read", NEW r \in Readings,
                    NEW k \in Sides, r[k] # Torn, NEW s \in 1..asked[c].last
             PROVE  /\ s \in r[k] => dealt[s] >= asked[c].before
                    /\ dealt[s] >= now - Window => s \in r[k]
  BY DEF ReportIsWindow
<1>1. r[k] = sum[k]
  BY DEF Readings
<1>2. /\ asked[c].last \in Nat /\ asked[c].last <= last /\ last <= Len(dealt)
      /\ last \in Nat /\ first \in Nat /\ Len(dealt) \in Nat
      /\ pc[Consumer] = "add1" => asked[c].last < last
      /\ s >= first => dealt[s] >= asked[c].before
  BY DEF IInv, Types, AskedOK
<1>3. s \in 1..Len(dealt) /\ s <= last /\ (pc[Consumer] = "add1" => s <= last - 1)
  BY <1>2
<1>4. dealt[s] \in Int /\ now - Window \in Int /\ dealt \in Seq(Int) /\ before \in Int
  <2>1. now \in Int /\ dealt \in Seq(Int) /\ before \in Int
    BY DEF IInv, Types
  <2>2. Window \in Nat
    BY DayAssumption
  <2>3. dealt[s] \in Int
    BY <1>3, <2>1
  <2>4. QED
    BY <2>1, <2>2, <2>3
<1>5. s \in sum[k] => s >= first
  BY <1>2 DEF IInv, Sums, Sides
<1>6. ASSUME dealt[s] >= now - Window PROVE s \in sum[k]
  <2>1. s >= first
    BY <1>2, <1>3, <1>4, <1>6 DEF IInv, Sorted
  <2>2. ASSUME Evicting PROVE s >= first + 1
    <3>1. PICK p \in Procs : pc[p] = "sub"
      BY <2>2 DEF Evicting
    <3>2. before <= now - Window /\ first <= last /\ dealt[first] < before
      BY <2>2, <3>1 DEF IInv, Sorted
    <3>3. first \in 1..Len(dealt)
      BY <3>2, <1>2 DEF IInv, Types
    <3>4. dealt[first] \in Int
      BY <3>3, <1>4
    <3>5. s # first
      BY <3>2, <3>4, <1>4, <1>6
    <3>6. QED
      BY <3>5, <2>1, <1>2, <1>3
  <2>3. QED
    BY <2>1, <2>2, <1>2, <1>3 DEF IInv, Sums, Sides
<1>7. QED
  BY <1>1, <1>2, <1>5, <1>6

\* Whenever the lock of the volumes is free, both sums are those of the swaps in the
\* queue, however many handlers evict while the consumer is between its two locks
\* (Volumes.append and get24HVolume, service/types.go).
THEOREM SumsOfQueue == Spec => []SumIsWindow
<1>1. Init => IInv
  BY InitIInv
<1>2. IInv /\ [Next]_vars => IInv'
  BY NextIInv
<1>3. IInv => SumIsWindow
  BY IInvSums
<1>4. QED
  BY <1>1, <1>2, <1>3, PTL DEF Spec

\* What a handler reads of the sums after it released the lock, unless the read is
\* torn, counts no known swap that was too old when it asked and every known one that
\* is young enough when it answers (OverviewPools, service/api.go).
THEOREM ReportsAreWindows == Spec => []ReportIsWindow
<1>1. Init => IInv
  BY InitIInv
<1>2. IInv /\ [Next]_vars => IInv'
  BY NextIInv
<1>3. IInv => ReportIsWindow
  BY IInvReport
<1>4. QED
  BY <1>1, <1>2, <1>3, PTL DEF Spec
-----------------------------------------------------------------------------
(* The calendar of the counter, and what the rows it stores are made of *)

Amounts == {Torn} \cup SUBSET Nat
Weeks == SUBSET (Int \X Amounts)
PoolStats == [day : Int, v1 : [Sides -> Amounts], v7 : [Sides -> Weeks]]

\* The types of what the counter and the handlers keep.
Kept ==
    /\ now \in Nat /\ dealt \in Seq(Nat) /\ dbFaults \in 0..MaxDbFaults
    /\ preDay \in Nat
    /\ counted \in Seq([day : Nat, last : Nat])
    /\ stat \in Seq(PoolStats)
    /\ week \in [Sides -> Weeks] /\ day1 \in [Sides -> Amounts]
    /\ day \in [Clients -> Nat] /\ filled \in Nat

\* The counter notices every day, and it is done with it Jitter after midnight.
Calendar ==
    /\ Midnight(preDay) <= now /\ now <= Midnight(preDay + 1) + Jitter
    /\ pc[Counter] # "idle" => preDay > 0 /\ now <= Midnight(preDay) + Jitter

\* The days it took the lock for, each with the swaps that were known.
Ledger ==
    /\ \A n \in DOMAIN counted :
          /\ counted[n].day < preDay /\ counted[n].last <= last
          /\ pc[Counter] = "lock" => counted[n].day < preDay - 1
    /\ \A m, n \in DOMAIN counted :
          m < n => counted[m].day < counted[n].day /\ counted[m].last <= counted[n].last
    /\ pc[Counter] \notin {"idle", "lock"} => \E n \in DOMAIN counted : counted[n].day = preDay - 1

\* What it knows of the queue while it evicts, and until it has read the sums.
Knows ==
    \A n \in DOMAIN counted : counted[n].day = preDay - 1 =>
        /\ pc[Counter] \in {"evict", "sub"} => before >= Midnight(preDay - 1)
        /\ pc[Counter] \in {"query", "day"} =>
              /\ pc[Consumer] = "add1" => counted[n].last < last
              /\ \A s \in 1..counted[n].last : s >= first => dealt[s] >= Midnight(preDay - 1)

\* A volume that is that of day d up to the time the counter takes: no swap in it came
\* later, and of the swaps that were known it has none of the days before d and all
\* that came after the beginning of d.
Fair(v, d) ==
    v # Torn =>
        /\ v \subseteq 1..Len(dealt)
        /\ \A s \in v : dealt[s] <= Midnight(d + 1) + Jitter
        /\ \A n \in DOMAIN counted : counted[n].day = d =>
              \A s \in 1..counted[n].last :
                  /\ s \in v => dealt[s] >= Midnight(d)
                  /\ dealt[s] >= Midnight(d) + Jitter => s \in v

\* A weekly volume: the daily volumes of the rows up to the given one, and one for d.
Parts(upto, d, k) ==
    {<<stat[j].day, stat[j].v1[k]>> : j \in {i \in 1..upto : stat[i].day > d - WeekDays}}
Made(v7, upto, d, k) ==
    \E v \in Amounts : Fair(v, d) /\ v7 = Parts(upto, d, k) \cup {<<d, v>>}

\* The rows are in the order of their days, which are over.
Table ==
    /\ \A i \in DOMAIN stat : /\ stat[i].day < preDay
                              /\ pc[Counter] # "idle" => stat[i].day < preDay - 1
    /\ \A i, j \in DOMAIN stat : i < j => stat[i].day < stat[j].day

RowsFair ==
    \A i \in DOMAIN stat :
        /\ stat[i].day < 0 => stat[i].v1 = NoVolume
        /\ stat[i].day >= 0 =>
              /\ \E n \in DOMAIN counted : counted[n].day = stat[i].day
              /\ \A k \in Sides : /\ Fair(stat[i].v1[k], stat[i].day)
                                  /\ Made(stat[i].v7[k], i - 1, stat[i].day, k)

\* What the counter has in its hands.
InHand ==
    \A k \in Sides :
        /\ pc[Counter] \in {"day", "store"} => Made(week[k], Len(stat), preDay - 1, k)
        /\ pc[Counter] = "store" => Fair(day1[k], preDay - 1)

\* The cached rows are those of the table from one row to another; the rows before are
\* too old for the request that filled the cache.
Cached ==
    cache # <<>> => \E a \in DOMAIN stat :
        /\ cache \in Seq(PoolStats) /\ Len(cache) > 0
        /\ a + Len(cache) - 1 <= Len(stat)
        /\ \A m \in 1..Len(cache) : cache[m] = stat[a + m - 1]
        /\ \A i \in DOMAIN stat : i < a => stat[i].day <= filled - StatDays

DayInv == Kept /\ Calendar /\ Ledger /\ Knows /\ Table /\ RowsFair /\ InHand /\ Cached
-----------------------------------------------------------------------------
LEMMA ElementIn ==
    ASSUME NEW S, NEW q \in Seq(S)
    PROVE  /\ Len(q) \in Nat /\ DOMAIN q = 1..Len(q)
           /\ \A n \in DOMAIN q : q[n] \in S
OBVIOUS

-----------------------------------------------------------------------------
(* Days and midnights *)

LEMMA MidnightGrows ==
    /\ \A d \in Int : Midnight(d) \in Int /\ Midnight(d + 1) = Midnight(d) + Window
    /\ \A d, e \in Int : d <= e => Midnight(d) <= Midnight(e)
    /\ \A d, e \in Int : d < e => Midnight(d + 1) <= Midnight(e)
<1>1. Window \in Nat /\ Window > 0
  BY DayAssumption
<1>2. \A d \in Int : Midnight(d) \in Int /\ Midnight(d + 1) = Midnight(d) + Window
  BY <1>1 DEF Midnight
<1>3. ASSUME NEW d \in Int, NEW e \in Int, d <= e PROVE Midnight(d) <= Midnight(e)
  <2>1. (e - d) \in Nat
    BY <1>3
  <2>2. \A m \in Nat : m * Window >= 0
    BY <1>1
  <2>3. (e - d) * Window >= 0
    BY <2>1, <2>2
  <2>4. (e - d) * Window = e * Window - d * Window
    BY <1>1
  <2>5. e * Window \in Int /\ d * Window \in Int
    BY <1>1
  <2>6. QED
    BY <2>3, <2>4, <2>5 DEF Midnight
<1>4. \A d, e \in Int : d < e => Midnight(d + 1) <= Midnight(e)
  BY <1>3
<1>5. QED
  BY <1>2, <1>3, <1>4

LEMMA MidnightOf ==
    ASSUME NEW d \in Int
    PROVE  /\ Midnight(d) \in Int /\ Midnight(d + 1) \in Int /\ Midnight(d - 1) \in Int
           /\ Midnight(d + 1) = Midnight(d) + Window
           /\ Midnight(d) = Midnight(d - 1) + Window
<1>1. d - 1 \in Int /\ d + 1 \in Int /\ (d - 1) + 1 = d
  OBVIOUS
<1>2. Midnight((d - 1) + 1) = Midnight(d - 1) + Window
  BY <1>1, MidnightGrows, Zenon
<1>3. QED
  BY <1>1, <1>2, MidnightGrows, Zenon

LEMMA DayBounds ==
    ASSUME NEW t \in Nat
    PROVE  /\ Day(t) \in Nat
           /\ Midnight(Day(t)) <= t /\ t < Midnight(Day(t) + 1)
<1>1. Window \in Nat /\ Window > 0
  BY DayAssumption
<1>2. t \div Window \in Nat
  BY <1>1
<1>3. (t \div Window) * Window <= t /\ t < (t \div Window) * Window + Window
  BY <1>1
<1>4. QED
  BY <1>2, <1>3, MidnightGrows DEF Day, Midnight

LEMMA DayIs ==
    ASSUME NEW t \in Nat, NEW d \in Int, Midnight(d) <= t, t < Midnight(d + 1)
    PROVE  Day(t) = d
<1>1. Day(t) \in Int /\ Midnight(Day(t)) <= t /\ t < Midnight(Day(t) + 1)
  BY DayBounds
<1>2. Midnight(Day(t)) \in Int /\ Midnight(Day(t) + 1) \in Int /\ Midnight(d) \in Int
      /\ Midnight(d + 1) \in Int
  BY <1>1, MidnightGrows
<1>3. ~(Day(t) < d)
  <2>1. Day(t) < d => Midnight(Day(t) + 1) <= Midnight(d)
    BY <1>1, MidnightGrows
  <2>2. QED
    BY <2>1, <1>1, <1>2
<1>4. ~(d < Day(t))
  <2>1. d < Day(t) => Midnight(d + 1) <= Midnight(Day(t))
    BY <1>1, MidnightGrows
  <2>2. QED
    BY <2>1, <1>1, <1>2
<1>5. QED
  BY <1>1, <1>3, <1>4

-----------------------------------------------------------------------------
(* Amounts *)

\* A swap of the queue that is younger than a day is in both sums, unless it is the
\* one the consumer is appending.
LEMMA YoungInSum ==
    ASSUME IInv, NEW k \in Sides, NEW s \in 1..Len(dealt), s <= last,
           pc[Consumer] = "add1" => s < last, dealt[s] >= now - Window
    PROVE  s \in sum[k]
<1>1. /\ last \in Nat /\ first \in Nat /\ dealt[s] \in Int /\ now - Window \in Int
      /\ dealt \in Seq(Int) /\ before \in Int /\ last <= Len(dealt)
  BY DayAssumption DEF IInv, Types
<1>2. s >= first
  BY <1>1 DEF IInv, Sorted
<1>3. ASSUME Evicting PROVE s >= first + 1
  <2>1. PICK p \in Procs : pc[p] = "sub"
    BY <1>3 DEF Evicting
  <2>2. before <= now - Window /\ first <= last /\ dealt[first] < before
    BY <1>3, <2>1 DEF IInv, Sorted
  <2>3. first \in 1..Len(dealt)
    BY <2>2, <1>1 DEF IInv, Types
  <2>4. dealt[first] \in Int
    BY <2>3, <1>1
  <2>5. s # first
    BY <2>2, <2>4, <1>1
  <2>6. QED
    BY <2>5, <1>1, <1>2
<1>4. QED
  BY <1>1, <1>2, <1>3 DEF IInv, Sums, Sides

\* What the counter reads without the lock is a volume of the day that ended.
LEMMA ReadingsFair ==
    ASSUME IInv, DayInv, pc[Counter] \in {"query", "day"}, NEW r \in Readings
    PROVE  /\ r \in [Sides -> Amounts]
           /\ \A k \in Sides : Fair(r[k], preDay - 1)
<1>1. /\ last \in Nat /\ first \in Nat \ {0} /\ last <= Len(dealt) /\ Len(dealt) \in Nat
      /\ now \in Nat /\ preDay \in Nat /\ counted \in Seq([day : Nat, last : Nat])
      /\ Jitter \in Nat /\ Window \in Nat
  BY DayAssumption DEF IInv, Types, DayInv, Kept
<1>2. \A i \in 1..Len(dealt) : dealt[i] \in Nat
  BY DEF DayInv, Kept
<1>3. /\ now <= Midnight(preDay) + Jitter
      /\ Midnight(preDay) \in Int /\ Midnight(preDay - 1) \in Int
      /\ Midnight(preDay - 1) + Window = Midnight(preDay)
  <2>1. preDay \in Int
    BY <1>1
  <2>2. QED
    BY <2>1, MidnightOf DEF DayInv, Calendar
<1>4. /\ \A k \in Sides : \A s \in sum[k] : s \in 1..Len(dealt) /\ first <= s
      /\ \A k \in Sides : sum[k] \in Amounts
  <2>1. \A k \in Sides : \A s \in sum[k] : s \in first..last
    BY <1>1 DEF IInv, Sums, Sides
  <2>2. \A k \in Sides : \A s \in sum[k] : s \in Nat /\ s \in 1..Len(dealt) /\ first <= s
    BY <2>1, <1>1
  <2>3. QED
    BY <2>2 DEF Amounts
<1>5. r \in [Sides -> Amounts]
  <2>1. \A k \in Sides : r[k] \in Amounts
    BY <1>4 DEF Readings, Amounts
  <2>2. r \in [Sides -> {sum[k] : k \in Sides} \cup {Torn}]
    BY DEF Readings
  <2>3. QED
    BY <2>1, <2>2
<1>6. ASSUME NEW k \in Sides, r[k] # Torn PROVE
        /\ r[k] \subseteq 1..Len(dealt)
        /\ \A s \in r[k] : dealt[s] <= Midnight(preDay) + Jitter
        /\ \A n \in DOMAIN counted : counted[n].day = preDay - 1 =>
              \A s \in 1..counted[n].last :
                  /\ s \in r[k] => dealt[s] >= Midnight(preDay - 1)
                  /\ dealt[s] >= Midnight(preDay - 1) + Jitter => s \in r[k]
  <2>1. r[k] = sum[k]
    BY <1>6 DEF Readings
  <2>2. \A s \in sum[k] : dealt[s] <= now
    BY <1>4 DEF IInv, Sorted
  <2>3. \A s \in sum[k] : dealt[s] <= Midnight(preDay) + Jitter
    BY <2>2, <1>1, <1>2, <1>3, <1>4
  <2>4. ASSUME NEW n \in DOMAIN counted, counted[n].day = preDay - 1,
               NEW s \in 1..counted[n].last
        PROVE  /\ s \in sum[k] => dealt[s] >= Midnight(preDay - 1)
               /\ dealt[s] >= Midnight(preDay - 1) + Jitter => s \in sum[k]
    <3>1. counted[n].last \in Nat /\ counted[n].last <= last
      <4>1. counted[n] \in [day : Nat, last : Nat]
        BY <1>1, ElementIn
      <4>2. QED
        BY <4>1 DEF DayInv, Ledger
    <3>2. s \in 1..Len(dealt) /\ s <= last /\ s <= counted[n].last /\ s \in Nat
      BY <3>1, <1>1
    <3>3. /\ pc[Consumer] = "add1" => counted[n].last < last
          /\ s >= first => dealt[s] >= Midnight(preDay - 1)
      BY <2>4 DEF DayInv, Knows
    <3>4. pc[Consumer] = "add1" => s < last
      BY <3>1, <3>2, <3>3, <1>1
    <3>5. ASSUME dealt[s] >= Midnight(preDay - 1) + Jitter PROVE dealt[s] >= now - Window
      <4>1. dealt[s] \in Nat /\ Midnight(preDay - 1) \in Int /\ Midnight(preDay) \in Int
        BY <3>2, <1>2, <1>3
      <4>2. /\ now \in Int /\ Window \in Int /\ Jitter \in Int
            /\ now <= Midnight(preDay) + Jitter
            /\ Midnight(preDay - 1) + Window = Midnight(preDay)
        BY <1>1, <1>3
      <4>3. QED
        BY <3>5, <4>1, <4>2
    <3>6. QED
      BY <3>2, <3>3, <3>4, <3>5, <1>4, YoungInSum
  <2>5. QED
    BY <2>1, <2>3, <2>4, <1>4
<1>7. (preDay - 1) + 1 = preDay
  BY <1>1
<1>8. QED
  BY <1>5, <1>6, <1>7 DEF Fair

\* What is known of a volume does not depend on the swaps that come later ...
LEMMA FairLater ==
    ASSUME NEW v, NEW d, Fair(v, d), Kept, Ledger, last \in Nat, last <= Len(dealt),
           NEW t, dealt' = Append(dealt, t), counted' = counted
    PROVE  Fair(v, d)'
<1>1. dealt \in Seq(Nat) /\ Len(dealt) \in Nat /\ counted \in Seq([day : Nat, last : Nat])
  BY DEF Kept
<1>2. Len(dealt') = Len(dealt) + 1 /\ \A i \in 1..Len(dealt) : dealt'[i] = dealt[i]
  BY <1>1
<1>3. \A n \in DOMAIN counted : \A s \in 1..counted[n].last : s \in 1..Len(dealt)
  <2>1. \A n \in DOMAIN counted : counted[n] \in [day : Nat, last : Nat]
    BY <1>1, ElementIn
  <2>2. \A n \in DOMAIN counted : counted[n].last \in Nat /\ counted[n].last <= last
    BY <2>1 DEF Ledger
  <2>3. QED
    BY <2>2, <1>1
<1>4. SUFFICES ASSUME v # Torn
      PROVE  /\ v \subseteq 1..Len(dealt')
             /\ \A s \in v : dealt'[s] <= Midnight(d + 1) + Jitter
             /\ \A n \in DOMAIN counted : counted[n].day = d =>
                   \A s \in 1..counted[n].last :
                       /\ s \in v => dealt'[s] >= Midnight(d)
                       /\ dealt'[s] >= Midnight(d) + Jitter => s \in v
  BY DEF Fair, Midnight
<1>5. v \subseteq 1..Len(dealt)
  BY <1>4 DEF Fair
<1>6. v \subseteq 1..Len(dealt')
  BY <1>1, <1>2, <1>5
<1>7. \A s \in v : dealt'[s] <= Midnight(d + 1) + Jitter
  BY <1>2, <1>4, <1>5 DEF Fair
<1>8. QED
  BY <1>2, <1>3, <1>4, <1>6, <1>7 DEF Fair

\* ... nor on the days that are counted later.
LEMMA FairCounted ==
    ASSUME NEW v, NEW d, Fair(v, d), Kept, NEW e, e.day # d,
           dealt' = dealt, counted' = Append(counted, e)
    PROVE  Fair(v, d)'
<1>1. counted \in Seq([day : Nat, last : Nat]) /\ Len(counted) \in Nat
  BY DEF Kept
<1>2. \A n \in DOMAIN counted' : counted'[n].day = d => n \in DOMAIN counted /\ counted'[n] = counted[n]
  <2>1. Len(counted') = Len(counted) + 1 /\ DOMAIN counted' = 1..(Len(counted) + 1)
    BY <1>1
  <2>2. /\ counted'[Len(counted) + 1] = e
        /\ \A n \in 1..Len(counted) : counted'[n] = counted[n]
    BY <1>1
  <2>3. QED
    BY <2>1, <2>2, <1>1
<1>3. QED
  BY <1>2 DEF Fair, Midnight

LEMMA FairSame ==
    ASSUME NEW v, NEW d, Fair(v, d), dealt' = dealt, counted' = counted
    PROVE  Fair(v, d)'
BY DEF Fair, Midnight

-----------------------------------------------------------------------------
(* The steps of the queue *)

\* What a step of the queue leaves alone.
QueueOnly == UNCHANGED <<now, dealt, preDay, week, day1, counted, stat, cache, day, filled, dbFaults>>

\* A weekly volume stays one while neither the table nor what is known changes.
LEMMA MadeSame ==
    ASSUME NEW v7, NEW upto, NEW d, NEW k, Made(v7, upto, d, k),
           dealt' = dealt, counted' = counted, stat' = stat
    PROVE  Made(v7, upto, d, k)'
<1>1. PICK v \in Amounts : Fair(v, d) /\ v7 = Parts(upto, d, k) \cup {<<d, v>>}
  BY DEF Made
<1>2. Fair(v, d)'
  BY <1>1, FairSame
<1>3. Parts(upto, d, k)' = Parts(upto, d, k)
  BY DEF Parts
<1>4. QED
  BY <1>1, <1>2, <1>3 DEF Made

LEMMA RowsSame ==
    ASSUME RowsFair, dealt' = dealt, counted' = counted, stat' = stat
    PROVE  RowsFair'
<1>1. SUFFICES ASSUME NEW i \in DOMAIN stat
      PROVE /\ stat[i].day < 0 => stat[i].v1 = NoVolume
            /\ stat[i].day >= 0 =>
                 /\ \E n \in DOMAIN counted : counted[n].day = stat[i].day
                 /\ \A k \in Sides : /\ Fair(stat[i].v1[k], stat[i].day)'
                                     /\ Made(stat[i].v7[k], i - 1, stat[i].day, k)'
  BY DEF RowsFair
<1>2. ASSUME stat[i].day >= 0, NEW k \in Sides
      PROVE  /\ Fair(stat[i].v1[k], stat[i].day)'
             /\ Made(stat[i].v7[k], i - 1, stat[i].day, k)'
  <2>1. /\ Fair(stat[i].v1[k], stat[i].day)
        /\ Made(stat[i].v7[k], i - 1, stat[i].day, k)
    BY <1>2 DEF RowsFair
  <2>2. Fair(stat[i].v1[k], stat[i].day)'
    BY <2>1, FairSame
  <2>3. Made(stat[i].v7[k], i - 1, stat[i].day, k)'
    BY <2>1, MadeSame
  <2>4. QED
    BY <2>2, <2>3
<1>3. QED
  BY <1>2 DEF RowsFair

LEMMA QueueStep ==
    ASSUME DayInv, Knows', QueueOnly, last \in Nat, last' \in Nat, last <= last',
           \/ pc'[Counter] = pc[Counter]
           \/ /\ pc[Counter] \notin {"idle", "lock", "day", "store"}
              /\ pc'[Counter] \notin {"idle", "lock", "day", "store"}
    PROVE  DayInv'
<1> USE DEF DayInv
<1>1. UNCHANGED <<now, dealt, preDay, week, day1, counted, stat, cache, day, filled, dbFaults>>
  BY DEF QueueOnly
<1>2. Kept'
  BY <1>1 DEF Kept
<1>3. Calendar' /\ Table'
  BY <1>1 DEF Calendar, Table, Midnight
<1>4. Ledger'
  <2>1. \A n \in DOMAIN counted : counted[n].last \in Nat /\ counted[n].last <= last
    <3>1. counted \in Seq([day : Nat, last : Nat])
      BY DEF Kept
    <3>2. \A n \in DOMAIN counted : counted[n] \in [day : Nat, last : Nat]
      BY <3>1, ElementIn
    <3>3. QED
      BY <3>2 DEF Ledger
  <2>2. \A n \in DOMAIN counted : counted[n].last <= last'
    BY <2>1
  <2>3. QED
    BY <1>1, <2>2 DEF Ledger
<1>5. RowsFair'
  BY <1>1, RowsSame
<1>6. InHand'
  <2>1. SUFFICES ASSUME NEW k \in Sides
        PROVE  /\ pc[Counter] \in {"day", "store"} => Made(week[k], Len(stat), preDay - 1, k)'
               /\ pc[Counter] = "store" => Fair(day1[k], preDay - 1)'
    BY <1>1 DEF InHand
  <2>2. /\ pc[Counter] \in {"day", "store"} => Made(week[k], Len(stat), preDay - 1, k)
        /\ pc[Counter] = "store" => Fair(day1[k], preDay - 1)
    BY DEF InHand
  <2>3. Made(week[k], Len(stat), preDay - 1, k) => Made(week[k], Len(stat), preDay - 1, k)'
    BY <1>1, MadeSame
  <2>4. Fair(day1[k], preDay - 1) => Fair(day1[k], preDay - 1)'
    BY <1>1, FairSame
  <2>5. QED
    BY <2>2, <2>3, <2>4
<1>7. Cached'
  BY <1>1 DEF Cached
<1>8. QED
  BY <1>2, <1>3, <1>4, <1>5, <1>6, <1>7

\* The labels the proofs below need of the counter and of the consumer.
LEMMA LockHeld ==
    ASSUME IInv, NEW p \in Procs, pc[p] \in Holding
    PROVE  mu = p /\ \A q \in Procs : q # p => pc[q] \notin Holding
BY DEF IInv, Exclusion

LEMMA LockFree ==
    ASSUME IInv, mu = Free
    PROVE  \A q \in Procs : pc[q] \notin Holding
BY Names DEF IInv, Exclusion

LEMMA GotoPc ==
    ASSUME IInv, NEW p \in Procs, NEW l, Goto(p, l)
    PROVE  \A q \in Procs : pc'[q] = IF q = p THEN l ELSE pc[q]
BY DEF IInv, Types, Goto

LEMMA LastTyped == ASSUME IInv PROVE last \in Nat /\ first \in Nat \ {0}
BY DEF IInv, Types

LEMMA LockOtherDay == ASSUME NEW p \in Procs, p # Counter
                      PROVE  IInv /\ DayInv /\ Lock(p) => DayInv'
<1> SUFFICES ASSUME IInv, DayInv, Lock(p) PROVE DayInv'
  OBVIOUS
<1>1. /\ QueueOnly /\ UNCHANGED <<first, last>> /\ Goto(p, "evict") /\ mu = Free
  BY DEF QueueOnly, Lock, clock, cached
<1>2. \A q \in Procs : pc'[q] = IF q = p THEN "evict" ELSE pc[q]
  BY <1>1, GotoPc
<1>3. pc[Counter] \notin Holding /\ pc'[Counter] = pc[Counter]
  BY <1>1, <1>2, LockFree, Names
<1>4. pc'[Consumer] = "add1" => pc[Consumer] = "add1"
  BY <1>2, Names
<1>5. Knows'
  BY <1>1, <1>3, <1>4 DEF DayInv, Knows, QueueOnly, Holding, Midnight
<1>6. QED
  BY <1>1, <1>3, <1>5, LastTyped, QueueStep

LEMMA SubFirstDay == ASSUME NEW p \in Procs PROVE IInv /\ DayInv /\ SubFirst(p) => DayInv'
<1> SUFFICES ASSUME IInv, DayInv, SubFirst(p) PROVE DayInv'
  OBVIOUS
<1>1. /\ QueueOnly /\ UNCHANGED <<first, last, before>> /\ Goto(p, "sub") /\ pc[p] = "evict"
  BY DEF QueueOnly, SubFirst, clock, cached, count
<1>2. \A q \in Procs : pc'[q] = IF q = p THEN "sub" ELSE pc[q]
  BY <1>1, GotoPc
<1>3. \/ pc'[Counter] = pc[Counter]
      \/ pc[Counter] = "evict" /\ pc'[Counter] = "sub"
  BY <1>1, <1>2, Names
<1>4. pc'[Consumer] = "add1" => pc[Consumer] = "add1"
  BY <1>2, Names
<1>5. Knows'
  BY <1>1, <1>3, <1>4 DEF DayInv, Knows, QueueOnly, Midnight
<1>6. QED
  BY <1>1, <1>3, <1>5, LastTyped, QueueStep

LEMMA SubSecondDay == ASSUME NEW p \in Procs PROVE IInv /\ DayInv /\ SubSecond(p) => DayInv'
<1> SUFFICES ASSUME IInv, DayInv, SubSecond(p) PROVE DayInv'
  OBVIOUS
<1>1. /\ QueueOnly /\ UNCHANGED <<last, before>> /\ Goto(p, "evict") /\ pc[p] = "sub"
      /\ first' = first + 1
  BY DEF QueueOnly, SubSecond, clock, cached, count
<1>2. \A q \in Procs : pc'[q] = IF q = p THEN "evict" ELSE pc[q]
  BY <1>1, GotoPc
<1>3. \/ pc'[Counter] = pc[Counter]
      \/ pc[Counter] = "sub" /\ pc'[Counter] = "evict"
  BY <1>1, <1>2, Names
<1>4. pc'[Consumer] = "add1" => pc[Consumer] = "add1"
  BY <1>2, Names
<1>5. \A s \in Int : s >= first' => s >= first
  BY <1>1, LastTyped
<1>6. Knows'
  <2>1. \A n \in DOMAIN counted : \A s \in 1..counted[n].last : s \in Int
    OBVIOUS
  <2>2. QED
    BY <2>1, <1>1, <1>3, <1>4, <1>5 DEF DayInv, Knows, QueueOnly, Midnight
<1>7. QED
  BY <1>1, <1>3, <1>6, LastTyped, QueueStep

LEMMA UnlockDay == ASSUME NEW p \in Procs PROVE IInv /\ DayInv /\ Unlock(p) => DayInv'
<1> SUFFICES ASSUME IInv, DayInv, Unlock(p) PROVE DayInv'
  OBVIOUS
<1>1. /\ QueueOnly /\ UNCHANGED <<first, last>> /\ Goto(p, AfterEvict(p)) /\ pc[p] = "evict"
      /\ ~Old
  BY DEF QueueOnly, Unlock, clock, cached, count
<1>2. /\ \A q \in Procs : pc'[q] = IF q = p THEN AfterEvict(p) ELSE pc[q]
      /\ \A q \in Procs : q # p => pc[q] \notin Holding
  BY <1>1, GotoPc, LockHeld DEF Holding
<1>3. pc'[Consumer] = "add1" => pc[Consumer] = "add1"
  BY <1>2, Names DEF AfterEvict
<1>4. CASE p # Counter
  <2>1. pc'[Counter] = pc[Counter] /\ pc[Counter] \notin Holding
    BY <1>2, <1>4, Names
  <2>2. Knows'
    BY <2>1, <1>1, <1>3 DEF DayInv, Knows, QueueOnly, Midnight, Holding
  <2>3. QED
    BY <1>1, <2>1, <2>2, LastTyped, QueueStep
<1>5. CASE p = Counter
  <2>1. pc[Counter] = "evict" /\ pc'[Counter] = "query" /\ pc'[Consumer] # "add1"
    BY <1>1, <1>2, <1>5, Names DEF AfterEvict, Holding
  <2>2. ASSUME NEW n \in DOMAIN counted, counted[n].day = preDay - 1,
               NEW s \in 1..counted[n].last, s >= first
        PROVE  dealt[s] >= Midnight(preDay - 1)
    <3>1. before >= Midnight(preDay - 1)
      BY <2>1, <2>2 DEF DayInv, Knows
    <3>2. counted \in Seq([day : Nat, last : Nat]) /\ preDay \in Nat
      BY DEF DayInv, Kept
    <3>3. counted[n].last \in Nat /\ counted[n].last <= last
      <4>1. counted[n] \in [day : Nat, last : Nat]
        BY <3>2, ElementIn
      <4>2. QED
        BY <4>1 DEF DayInv, Ledger
    <3>4. /\ last \in Nat /\ last <= Len(dealt) /\ first \in Nat \ {0} /\ before \in Int
          /\ Len(dealt) \in Nat
      BY DEF IInv, Types
    <3>5. s \in 1..Len(dealt) /\ first \in 1..Len(dealt) /\ first <= last
      BY <2>2, <3>3, <3>4
    <3>6. dealt[first] <= dealt[s]
      BY <2>2, <3>5 DEF IInv, Sorted
    <3>7. ~(dealt[first] < before)
      BY <1>1, <3>5 DEF Old
    <3>8. dealt[first] \in Int /\ dealt[s] \in Int
      BY <3>5 DEF IInv, Types
    <3>9. Midnight(preDay - 1) \in Int
      BY <3>2, MidnightOf
    <3>10. QED
      BY <3>1, <3>4, <3>6, <3>7, <3>8, <3>9
  <2>3. Knows'
    BY <2>1, <2>2, <1>1 DEF Knows, QueueOnly, Midnight
  <2>4. QED
    BY <1>1, <2>1, <2>3, LastTyped, QueueStep
<1>6. QED
  BY <1>4, <1>5

LEMMA LockAgainDay == IInv /\ DayInv /\ LockAgain => DayInv'
<1> SUFFICES ASSUME IInv, DayInv, LockAgain PROVE DayInv'
  OBVIOUS
<1>1. /\ QueueOnly /\ UNCHANGED <<first, last, before>> /\ Goto(Consumer, "add0")
  BY DEF QueueOnly, LockAgain, clock, cached, count
<1>2. \A q \in Procs : pc'[q] = IF q = Consumer THEN "add0" ELSE pc[q]
  BY <1>1, GotoPc, Names
<1>3. pc'[Counter] = pc[Counter] /\ pc'[Consumer] # "add1"
  BY <1>2, Names
<1>4. Knows'
  BY <1>1, <1>3 DEF DayInv, Knows, QueueOnly, Midnight
<1>5. QED
  BY <1>1, <1>3, <1>4, LastTyped, QueueStep

LEMMA AddFirstDay == IInv /\ DayInv /\ AddFirst => DayInv'
<1> SUFFICES ASSUME IInv, DayInv, AddFirst PROVE DayInv'
  OBVIOUS
<1>1. /\ QueueOnly /\ UNCHANGED <<first, before>> /\ Goto(Consumer, "add1")
      /\ last' = last + 1
  BY DEF QueueOnly, AddFirst, clock, cached, count
<1>2. \A q \in Procs : pc'[q] = IF q = Consumer THEN "add1" ELSE pc[q]
  BY <1>1, GotoPc, Names
<1>3. pc'[Counter] = pc[Counter]
  BY <1>2, Names
<1>4. last' \in Nat /\ last <= last' /\ \A n \in Nat : n <= last => n < last'
  BY <1>1, LastTyped
<1>5. Knows'
  <2>1. counted \in Seq([day : Nat, last : Nat])
    BY DEF DayInv, Kept
  <2>2. \A n \in DOMAIN counted : counted[n] \in [day : Nat, last : Nat]
    BY <2>1, ElementIn
  <2>3. \A n \in DOMAIN counted : counted[n].last < last'
    BY <2>2, <1>4 DEF DayInv, Ledger
  <2>4. QED
    BY <2>3, <1>1, <1>3 DEF DayInv, Knows, QueueOnly, Midnight
<1>6. QED
  BY <1>1, <1>3, <1>4, <1>5, LastTyped, QueueStep

LEMMA AddSecondDay == IInv /\ DayInv /\ AddSecond => DayInv'
<1> SUFFICES ASSUME IInv, DayInv, AddSecond PROVE DayInv'
  OBVIOUS
<1>1. /\ QueueOnly /\ UNCHANGED <<first, last, before>> /\ Goto(Consumer, "idle")
  BY DEF QueueOnly, AddSecond, clock, cached, count
<1>2. \A q \in Procs : pc'[q] = IF q = Consumer THEN "idle" ELSE pc[q]
  BY <1>1, GotoPc, Names
<1>3. pc'[Counter] = pc[Counter] /\ pc'[Consumer] # "add1"
  BY <1>2, Names
<1>4. Knows'
  BY <1>1, <1>3 DEF DayInv, Knows, QueueOnly, Midnight
<1>5. QED
  BY <1>1, <1>3, <1>4, LastTyped, QueueStep

-----------------------------------------------------------------------------
(* The world and the counter's lock *)

\* What is known of the volumes of day d stays true.
FairStays(d) == \A v : Fair(v, d) => Fair(v, d)'

LEMMA MadeKept ==
    ASSUME NEW v7, NEW upto, NEW d, NEW k, Made(v7, upto, d, k), FairStays(d),
           \A j \in 1..upto : stat'[j] = stat[j]
    PROVE  Made(v7, upto, d, k)'
<1>1. PICK v \in Amounts : Fair(v, d) /\ v7 = Parts(upto, d, k) \cup {<<d, v>>}
  BY DEF Made
<1>2. Fair(v, d)'
  BY <1>1 DEF FairStays
<1>3. Parts(upto, d, k)' = Parts(upto, d, k)
  BY DEF Parts
<1>4. QED
  BY <1>1, <1>2, <1>3 DEF Made

LEMMA RowsKept ==
    ASSUME RowsFair, stat' = stat, \A i \in DOMAIN stat : FairStays(stat[i].day),
           \A n \in DOMAIN counted : n \in DOMAIN counted' /\ counted'[n] = counted[n]
    PROVE  RowsFair'
<1>1. SUFFICES ASSUME NEW i \in DOMAIN stat
      PROVE /\ stat[i].day < 0 => stat[i].v1 = NoVolume
            /\ stat[i].day >= 0 =>
                 /\ \E n \in DOMAIN counted' : counted'[n].day = stat[i].day
                 /\ \A k \in Sides : /\ Fair(stat[i].v1[k], stat[i].day)'
                                     /\ Made(stat[i].v7[k], i - 1, stat[i].day, k)'
  BY DEF RowsFair
<1>2. FairStays(stat[i].day)
  OBVIOUS
<1>3. ASSUME stat[i].day >= 0, NEW k \in Sides
      PROVE  /\ Fair(stat[i].v1[k], stat[i].day)'
             /\ Made(stat[i].v7[k], i - 1, stat[i].day, k)'
  <2>1. /\ Fair(stat[i].v1[k], stat[i].day)
        /\ Made(stat[i].v7[k], i - 1, stat[i].day, k)
    BY <1>3 DEF RowsFair
  <2>2. Fair(stat[i].v1[k], stat[i].day)'
    BY <1>2, <2>1 DEF FairStays
  <2>3. Made(stat[i].v7[k], i - 1, stat[i].day, k)'
    BY <1>2, <2>1, MadeKept
  <2>4. QED
    BY <2>2, <2>3
<1>4. stat[i].day >= 0 => \E n \in DOMAIN counted' : counted'[n].day = stat[i].day
  BY DEF RowsFair
<1>5. QED
  BY <1>3, <1>4 DEF RowsFair

LEMMA HandKept ==
    ASSUME InHand, UNCHANGED <<stat, week, day1, preDay>>, FairStays(preDay - 1),
           pc'[Counter] \in {"day", "store"} => pc'[Counter] = pc[Counter]
    PROVE  InHand'
<1>1. SUFFICES ASSUME NEW k \in Sides, pc'[Counter] = pc[Counter]
      PROVE  /\ pc[Counter] \in {"day", "store"} => Made(week[k], Len(stat), preDay - 1, k)'
             /\ pc[Counter] = "store" => Fair(day1[k], preDay - 1)'
  BY DEF InHand
<1>2. Made(week[k], Len(stat), preDay - 1, k) => Made(week[k], Len(stat), preDay - 1, k)'
  BY MadeKept
<1>3. Fair(day1[k], preDay - 1) => Fair(day1[k], preDay - 1)'
  BY DEF FairStays
<1>4. QED
  BY <1>2, <1>3 DEF InHand

LEMMA DealDay == IInv /\ DayInv /\ Deal => DayInv'
<1> SUFFICES ASSUME IInv, DayInv, Deal PROVE DayInv'
  OBVIOUS
<1> USE DEF DayInv
<1>1. /\ dealt' = Append(dealt, now)
      /\ UNCHANGED <<now, first, last, before, pc, preDay, week, day1, counted, stat, cache,
                     day, filled, dbFaults>>
  BY DEF Deal, volumes, count, cached
<1>2. last \in Nat /\ last <= Len(dealt)
  BY DEF IInv, Types
<1>3. \A d : FairStays(d)
  BY <1>1, <1>2, FairLater DEF FairStays
<1>4. Kept'
  <2>1. dealt' \in Seq(Nat)
    BY <1>1 DEF Kept
  <2>2. QED
    BY <1>1, <2>1 DEF Kept
<1>5. Calendar' /\ Ledger' /\ Table' /\ Cached'
  BY <1>1 DEF Calendar, Ledger, Table, Cached, Midnight
<1>6. Knows'
  <2>1. dealt \in Seq(Nat) /\ counted \in Seq([day : Nat, last : Nat]) /\ Len(dealt) \in Nat
    BY DEF Kept
  <2>2. \A n \in DOMAIN counted : counted[n] \in [day : Nat, last : Nat]
    BY <2>1, ElementIn
  <2>3. \A n \in DOMAIN counted : \A s \in 1..counted[n].last : s \in 1..Len(dealt)
    <3>1. \A n \in DOMAIN counted : counted[n].last \in Nat /\ counted[n].last <= last
      BY <2>2 DEF Ledger
    <3>2. QED
      BY <3>1, <1>2, <2>1
  <2>4. \A i \in 1..Len(dealt) : dealt'[i] = dealt[i]
    BY <1>1, <2>1
  <2>5. QED
    BY <1>1, <2>3, <2>4 DEF Knows, Midnight
<1>7. RowsFair'
  BY <1>1, <1>3, RowsKept
<1>8. InHand'
  BY <1>1, <1>3, HandKept
<1>9. QED
  BY <1>4, <1>5, <1>6, <1>7, <1>8

LEMMA TickDay == IInv /\ DayInv /\ Tick => DayInv'
<1> SUFFICES ASSUME IInv, DayInv, Tick PROVE DayInv'
  OBVIOUS
<1> USE DEF DayInv
<1>1. /\ now' = now + 1
      /\ now = Midnight(Day(now)) + Jitter => preDay = Day(now) /\ pc[Counter] = "idle"
      /\ UNCHANGED <<dealt, first, last, before, pc, preDay, week, day1, counted, stat, cache,
                     day, filled, dbFaults>>
  BY DEF Tick, volumes, count, cached
<1>2. Kept'
  BY <1>1 DEF Kept
<1>3. /\ now \in Nat /\ preDay \in Nat /\ Jitter \in Nat /\ Window \in Nat /\ Jitter < Window
      /\ preDay + 1 \in Int
      /\ Midnight(preDay) \in Int /\ Midnight(preDay + 1) \in Int
      /\ Midnight(preDay + 1) = Midnight(preDay) + Window
      /\ Midnight((preDay + 1) + 1) = Midnight(preDay + 1) + Window
  <2>1. preDay \in Int /\ preDay + 1 \in Int
    BY DEF Kept
  <2>2. /\ Midnight(preDay) \in Int /\ Midnight(preDay + 1) \in Int
        /\ Midnight(preDay + 1) = Midnight(preDay) + Window
        /\ Midnight((preDay + 1) + 1) = Midnight(preDay + 1) + Window
    BY <2>1, MidnightOf, Zenon
  <2>3. QED
    BY <2>1, <2>2, DayAssumption DEF Kept
<1>4. now # Midnight(preDay + 1) + Jitter
  <2>1. SUFFICES ASSUME now = Midnight(preDay + 1) + Jitter PROVE FALSE
    OBVIOUS
  <2>2. Day(now) = preDay + 1
    BY <2>1, <1>3, DayIs
  <2>3. preDay # preDay + 1
    BY <1>3
  <2>4. QED
    BY <2>1, <2>2, <2>3, <1>1
<1>5. pc[Counter] # "idle" => now # Midnight(preDay) + Jitter
  <2>1. SUFFICES ASSUME now = Midnight(preDay) + Jitter PROVE pc[Counter] = "idle"
    OBVIOUS
  <2>2. Day(now) = preDay
    BY <2>1, <1>3, DayIs
  <2>3. QED
    BY <2>1, <2>2, <1>1
<1>6. Calendar'
  <2>1. Midnight(preDay) <= now' /\ now' <= Midnight(preDay + 1) + Jitter
    BY <1>1, <1>3, <1>4 DEF Calendar
  <2>2. pc[Counter] # "idle" => preDay > 0 /\ now' <= Midnight(preDay) + Jitter
    BY <1>1, <1>3, <1>5 DEF Calendar
  <2>3. QED
    BY <1>1, <2>1, <2>2 DEF Calendar, Midnight
<1>7. Ledger' /\ Knows' /\ Table' /\ Cached'
  BY <1>1 DEF Ledger, Knows, Table, Cached, Midnight
<1>8. RowsFair'
  BY <1>1, RowsSame
<1>9. InHand'
  <2>1. FairStays(preDay - 1)
    BY <1>1, FairSame DEF FairStays
  <2>2. QED
    BY <1>1, <2>1, HandKept
<1>10. QED
  BY <1>2, <1>6, <1>7, <1>8, <1>9

LEMMA LockCounterDay == IInv /\ DayInv /\ Lock(Counter) => DayInv'
<1> SUFFICES ASSUME IInv, DayInv, Lock(Counter) PROVE DayInv'
  OBVIOUS
<1> USE DEF DayInv
<1> DEFINE e == [day |-> preDay - 1, last |-> last]
<1>1. /\ pc[Counter] = "lock" /\ mu = Free /\ before' = now - Window
      /\ Goto(Counter, "evict") /\ counted' = Append(counted, e)
      /\ UNCHANGED <<now, dealt, first, last, preDay, week, day1, stat, cache, day, filled,
                     dbFaults>>
  BY Names DEF Lock, Calls, clock, cached
<1>2. pc'[Counter] = "evict" /\ pc'[Consumer] = pc[Consumer]
  BY <1>1, GotoPc, Names
<1>3. /\ preDay \in Nat /\ preDay > 0 /\ e \in [day : Nat, last : Nat] /\ last \in Nat
      /\ preDay - 1 \in Nat /\ now \in Nat /\ Window \in Nat
  BY <1>1, LastTyped, DayAssumption DEF Kept, Calendar
<1>4. /\ counted \in Seq([day : Nat, last : Nat]) /\ Len(counted) \in Nat
      /\ DOMAIN counted = 1..Len(counted)
      /\ \A n \in DOMAIN counted : counted[n] \in [day : Nat, last : Nat]
  BY ElementIn DEF Kept
<1>5. /\ counted' \in Seq([day : Nat, last : Nat])
      /\ DOMAIN counted' = 1..(Len(counted) + 1)
      /\ counted'[Len(counted) + 1] = e
      /\ \A n \in DOMAIN counted : counted'[n] = counted[n]
  <2> HIDE DEF e
  <2>1. QED
    BY <1>1, <1>3, <1>4
<1>6. \A n \in DOMAIN counted : counted[n].day < preDay - 1 /\ counted[n].last <= last
  BY <1>1 DEF Ledger
<1>7. Kept'
  BY <1>1, <1>5 DEF Kept
<1>8. Calendar' /\ Cached' /\ Table'
  BY <1>1, <1>2 DEF Calendar, Cached, Table, Midnight
<1>9. \A n \in DOMAIN counted' : n \in DOMAIN counted \/ n = Len(counted) + 1
  BY <1>4, <1>5
<1>10. e.day = preDay - 1 /\ e.last = last
  OBVIOUS
<1> HIDE DEF e
<1>11. Ledger'
  <2>1. ASSUME NEW n \in DOMAIN counted'
        PROVE  counted'[n].day < preDay /\ counted'[n].last <= last
    <3>1. CASE n \in DOMAIN counted
      <4>1. counted'[n] = counted[n] /\ counted[n].day \in Nat
        BY <3>1, <1>4, <1>5
      <4>2. QED
        BY <3>1, <4>1, <1>3, <1>6
    <3>2. CASE n = Len(counted) + 1
      BY <3>2, <1>3, <1>5, <1>10
    <3>3. QED
      BY <3>1, <3>2, <1>9
  <2>2. ASSUME NEW m \in DOMAIN counted', NEW n \in DOMAIN counted', m < n
        PROVE  counted'[m].day < counted'[n].day /\ counted'[m].last <= counted'[n].last
    <3>1. m \in DOMAIN counted
      BY <2>2, <1>4, <1>5
    <3>2. CASE n \in DOMAIN counted
      BY <3>1, <3>2, <2>2, <1>5 DEF Ledger
    <3>3. CASE n = Len(counted) + 1
      BY <3>1, <3>3, <1>5, <1>6, <1>10
    <3>4. QED
      BY <3>2, <3>3, <1>9
  <2>3. \E n \in DOMAIN counted' : counted'[n].day = preDay - 1
    <3>1. Len(counted) + 1 \in DOMAIN counted'
      BY <1>4, <1>5
    <3>2. QED
      BY <3>1, <1>5, <1>10
  <2>4. QED
    BY <1>1, <1>2, <2>1, <2>2, <2>3 DEF Ledger
<1>12. Knows'
  <2>1. before' >= Midnight(preDay - 1)
    <3>1. /\ Midnight(preDay) \in Int /\ Midnight(preDay - 1) \in Int
          /\ Midnight(preDay) = Midnight(preDay - 1) + Window
      BY <1>3, MidnightOf
    <3>2. QED
      BY <3>1, <1>1, <1>3 DEF Calendar
  <2>2. QED
    BY <1>1, <1>2, <2>1 DEF Knows, Midnight
<1>13. \A d : d # preDay - 1 => FairStays(d)
  BY <1>1, <1>10, FairCounted DEF FairStays
<1>14. RowsFair'
  <2>1. \A i \in DOMAIN stat : stat[i].day # preDay - 1
    <3>1. \A i \in DOMAIN stat : stat[i].day < preDay - 1
      BY <1>1 DEF Table
    <3>2. \A i \in DOMAIN stat : stat[i] \in PoolStats
      BY ElementIn DEF Kept
    <3>3. QED
      BY <3>1, <3>2, <1>3 DEF PoolStats
  <2>2. \A n \in DOMAIN counted : n \in DOMAIN counted' /\ counted'[n] = counted[n]
    BY <1>4, <1>5
  <2>3. QED
    BY <1>1, <1>13, <2>1, <2>2, RowsKept
<1>15. InHand'
  BY <1>2 DEF InHand
<1>16. QED
  BY <1>7, <1>8, <1>11, <1>12, <1>14, <1>15

-----------------------------------------------------------------------------
(* The counter's own steps and the handlers *)

LEMMA NoticeDayDay == IInv /\ DayInv /\ NoticeDay => DayInv'
<1> SUFFICES ASSUME IInv, DayInv, NoticeDay PROVE DayInv'
  OBVIOUS
<1> USE DEF DayInv
<1>1. /\ pc[Counter] = "idle" /\ preDay # Day(now) /\ preDay' = Day(now)
      /\ Goto(Counter, "lock")
      /\ UNCHANGED <<now, dealt, first, last, before, week, day1, counted, stat, cache, day,
                     filled, dbFaults>>
  BY DEF NoticeDay, clock, volumes, cached
<1>2. pc'[Counter] = "lock"
  BY <1>1, GotoPc, Names
<1>3. /\ now \in Nat /\ preDay \in Nat /\ Day(now) \in Nat
      /\ Midnight(Day(now)) <= now /\ now < Midnight(Day(now) + 1)
  BY DayBounds DEF Kept
<1>4. /\ Midnight(preDay) <= now /\ now <= Midnight(preDay + 1) + Jitter
      /\ Jitter \in Nat /\ Window \in Nat /\ Jitter < Window
  BY DayAssumption DEF Calendar
<1>5. Day(now) = preDay + 1
  <2>1. preDay \in Int /\ preDay + 1 \in Int
    BY <1>3
  <2>2. /\ Midnight(preDay) \in Int /\ Midnight(preDay + 1) \in Int
        /\ Midnight((preDay + 1) + 1) = Midnight(preDay + 1) + Window
    BY <2>1, MidnightOf, Zenon
  <2>3. now >= Midnight(preDay + 1)
    <3>1. now < Midnight(preDay + 1) => Day(now) = preDay
      BY <1>3, <1>4, <2>1, DayIs
    <3>2. QED
      BY <3>1, <2>2, <1>1, <1>3
  <2>4. now < Midnight((preDay + 1) + 1)
    BY <2>2, <1>3, <1>4
  <2>5. QED
    BY <2>1, <2>3, <2>4, <1>3, DayIs
<1>6. preDay' = preDay + 1 /\ preDay' - 1 = preDay
  BY <1>1, <1>3, <1>5
<1>7. Kept'
  BY <1>1, <1>3 DEF Kept
<1>8. Calendar'
  <2>1. /\ preDay' > 0 /\ Midnight(preDay') <= now
        /\ now <= Midnight(preDay') + Jitter
    BY <1>1, <1>3, <1>4, <1>5, <1>6
  <2>2. now <= Midnight(preDay' + 1) + Jitter
    <3>1. /\ Midnight(Day(now) + 1) \in Int
      BY <1>3, MidnightOf
    <3>2. QED
      BY <3>1, <1>1, <1>3, <1>4
  <2>3. QED
    BY <1>1, <2>1, <2>2 DEF Calendar, Midnight
<1>9. /\ \A n \in DOMAIN counted : counted[n].day < preDay /\ counted[n].day \in Nat
      /\ \A i \in DOMAIN stat : stat[i].day < preDay /\ stat[i].day \in Int
  <2>1. \A n \in DOMAIN counted : counted[n] \in [day : Nat, last : Nat]
    BY ElementIn DEF Kept
  <2>2. \A i \in DOMAIN stat : stat[i] \in PoolStats
    BY ElementIn DEF Kept
  <2>3. QED
    BY <2>1, <2>2 DEF Ledger, Table, PoolStats
<1>10. Ledger'
  <2>1. \A n \in DOMAIN counted : counted[n].day < preDay'
    BY <1>3, <1>6, <1>9
  <2>2. QED
    BY <1>1, <1>2, <1>6, <1>9, <2>1 DEF Ledger
<1>11. Table'
  <2>1. \A i \in DOMAIN stat : stat[i].day < preDay'
    BY <1>3, <1>6, <1>9
  <2>2. QED
    BY <1>1, <1>6, <1>9, <2>1 DEF Table
<1>12. Knows' /\ InHand' /\ Cached'
  BY <1>1, <1>2 DEF Knows, InHand, Cached
<1>13. RowsFair'
  BY <1>1, RowsSame
<1>14. QED
  BY <1>7, <1>8, <1>10, <1>11, <1>12, <1>13

\* What the counter's later steps have in common.
LEMMA CounterStep ==
    ASSUME IInv, DayInv, NEW l \in {"idle", "day", "store"}, Goto(Counter, l),
           pc[Counter] \in {"query", "day", "store"},
           l = "idle" \/ pc[Counter] # "store",
           UNCHANGED <<now, dealt, first, last, before, preDay, counted, cache, day, filled>>
    PROVE  /\ Calendar' /\ Ledger'
           /\ pc'[Counter] = l
           /\ l = "day" => Knows'
           /\ l # "day" => Knows'
           /\ stat' = stat => Table' /\ Cached' /\ RowsFair'
<1> USE DEF DayInv
<1>1. pc'[Counter] = l /\ pc'[Consumer] = pc[Consumer]
  BY GotoPc, Names
<1>2. Calendar' /\ Ledger'
  BY <1>1 DEF Calendar, Ledger, Midnight
<1>3. l = "day" => Knows'
  <2>1. SUFFICES ASSUME l = "day" PROVE Knows'
    OBVIOUS
  <2>2. pc[Counter] \in {"query", "day"}
    BY <2>1
  <2>3. QED
    BY <1>1, <2>1, <2>2 DEF Knows, Midnight
<1>4. l # "day" => Knows'
  BY <1>1 DEF Knows
<1>5. stat' = stat => Table' /\ Cached' /\ RowsFair'
  <2>1. SUFFICES ASSUME stat' = stat PROVE Table' /\ Cached' /\ RowsFair'
    OBVIOUS
  <2>2. Table' /\ Cached'
    BY <1>1, <2>1 DEF Table, Cached
  <2>3. RowsFair'
    BY <2>1, RowsSame
  <2>4. QED
    BY <2>2, <2>3
<1>6. QED
  BY <1>1, <1>2, <1>3, <1>4, <1>5

LEMMA CountWeekDay == IInv /\ DayInv /\ CountWeek => DayInv'
<1> SUFFICES ASSUME IInv, DayInv, CountWeek PROVE DayInv'
  OBVIOUS
<1> USE DEF DayInv
<1>1. /\ pc[Counter] = "query"
      /\ UNCHANGED <<now, dealt, first, last, before, preDay, day1, counted, stat, cache, day,
                     filled>>
  BY DEF CountWeek, clock, volumes, cached
<1>2. CASE WeekFrom(preDay - WeekDays) /\ Goto(Counter, "day") /\ UNCHANGED dbFaults
  <2>1. /\ Calendar' /\ Ledger' /\ pc'[Counter] = "day" /\ Knows' /\ Table' /\ Cached'
        /\ RowsFair'
    BY <1>1, <1>2, CounterStep
  <2>2. PICK r \in Readings :
          week' = [k \in Sides |->
                     GetNDaysVolumes(preDay - WeekDays, k) \cup {<<preDay - 1, r[k]>>}]
    BY <1>2 DEF WeekFrom
  <2>3. r \in [Sides -> Amounts] /\ \A k \in Sides : Fair(r[k], preDay - 1)
    BY <1>1, ReadingsFair
  <2>4. /\ stat \in Seq(PoolStats) /\ Len(stat) \in Nat /\ DOMAIN stat = 1..Len(stat)
        /\ \A i \in DOMAIN stat : stat[i] \in PoolStats
        /\ preDay \in Nat /\ WeekDays \in Nat
    BY ElementIn, DayAssumption DEF Kept
  <2>5. ASSUME NEW k \in Sides
        PROVE  /\ GetNDaysVolumes(preDay - WeekDays, k) = Parts(Len(stat), preDay - 1, k)
               /\ GetNDaysVolumes(preDay - WeekDays, k) \in Weeks
    <3>1. \A i \in DOMAIN stat : stat[i].day \in Int /\ stat[i].v1[k] \in Amounts
      BY <2>4 DEF PoolStats
    <3>2. {j \in DOMAIN stat : stat[j].day >= preDay - WeekDays}
            = {i \in 1..Len(stat) : stat[i].day > preDay - 1 - WeekDays}
      BY <2>4, <3>1
    <3>3. GetNDaysVolumes(preDay - WeekDays, k) = Parts(Len(stat), preDay - 1, k)
      BY <3>2, Zenon DEF GetNDaysVolumes, Parts
    <3>4. GetNDaysVolumes(preDay - WeekDays, k) \subseteq Int \X Amounts
      BY <3>1 DEF GetNDaysVolumes
    <3>5. QED
      BY <3>3, <3>4 DEF Weeks
  <2>6. week' \in [Sides -> Weeks]
    <3>1. \A k \in Sides : {<<preDay - 1, r[k]>>} \in Weeks
      BY <2>3, <2>4 DEF Weeks
    <3>2. \A k \in Sides :
            GetNDaysVolumes(preDay - WeekDays, k) \cup {<<preDay - 1, r[k]>>} \in Weeks
      BY <3>1, <2>5 DEF Weeks
    <3>3. QED
      BY <2>2, <3>2
  <2>7. Kept'
    BY <1>1, <1>2, <2>6 DEF Kept
  <2>8. ASSUME NEW k \in Sides PROVE Made(week[k], Len(stat), preDay - 1, k)'
    <3>1. week'[k] = Parts(Len(stat), preDay - 1, k) \cup {<<preDay - 1, r[k]>>}
      BY <2>2, <2>5
    <3>2. r[k] \in Amounts /\ Fair(r[k], preDay - 1)
      BY <2>3
    <3>3. Made(week'[k], Len(stat), preDay - 1, k)
      BY <3>1, <3>2 DEF Made
    <3>4. QED
      BY <3>3, <1>1 DEF Made, Parts, Fair, Midnight
  <2>9. InHand'
    BY <2>1, <2>8 DEF InHand
  <2>10. QED
    BY <2>1, <2>7, <2>9
<1>3. CASE DbFault /\ Goto(Counter, "idle") /\ UNCHANGED week
  <2>1. /\ Calendar' /\ Ledger' /\ pc'[Counter] = "idle" /\ Knows' /\ Table' /\ Cached'
        /\ RowsFair'
    BY <1>1, <1>3, CounterStep
  <2>2. dbFaults' \in 0..MaxDbFaults
    BY <1>3, DayAssumption DEF Kept, DbFault
  <2>3. Kept'
    BY <1>1, <1>3, <2>2 DEF Kept
  <2>4. InHand'
    BY <2>1 DEF InHand
  <2>5. QED
    BY <2>1, <2>3, <2>4
<1>4. QED
  BY <1>2, <1>3 DEF CountWeek

LEMMA CountDayDay == IInv /\ DayInv /\ CountDay => DayInv'
<1> SUFFICES ASSUME IInv, DayInv, CountDay PROVE DayInv'
  OBVIOUS
<1> USE DEF DayInv
<1>1. /\ pc[Counter] = "day" /\ day1' \in Readings /\ Goto(Counter, "store")
      /\ UNCHANGED <<now, dealt, first, last, before, preDay, week, counted, stat, cache, day,
                     filled, dbFaults>>
  BY DEF CountDay, clock, volumes, cached
<1>2. /\ Calendar' /\ Ledger' /\ pc'[Counter] = "store" /\ Knows' /\ Table' /\ Cached'
      /\ RowsFair'
  BY <1>1, CounterStep
<1>3. day1' \in [Sides -> Amounts] /\ \A k \in Sides : Fair(day1'[k], preDay - 1)
  BY <1>1, ReadingsFair
<1>4. Kept'
  BY <1>1, <1>3 DEF Kept
<1>5. InHand'
  <2>1. SUFFICES ASSUME NEW k \in Sides
        PROVE  Made(week[k], Len(stat), preDay - 1, k)' /\ Fair(day1[k], preDay - 1)'
    BY DEF InHand
  <2>2. Made(week[k], Len(stat), preDay - 1, k)
    BY <1>1 DEF InHand
  <2>3. Made(week[k], Len(stat), preDay - 1, k)'
    BY <2>2, <1>1, MadeSame
  <2>4. Fair(day1'[k], preDay - 1)
    BY <1>3
  <2>5. Fair(day1[k], preDay - 1)'
    BY <2>4, <1>1 DEF Fair, Midnight
  <2>6. QED
    BY <2>3, <2>5
<1>6. QED
  BY <1>2, <1>4, <1>5


LEMMA CountStoreDay == IInv /\ DayInv /\ CountStore => DayInv'
<1> SUFFICES ASSUME IInv, DayInv, CountStore PROVE DayInv'
  OBVIOUS
<1> USE DEF DayInv
<1>1. /\ pc[Counter] = "store" /\ Goto(Counter, "idle")
      /\ week' = NoVolume /\ day1' = NoVolume
      /\ UNCHANGED <<now, dealt, first, last, before, preDay, counted, cache, day, filled>>
  BY DEF CountStore, clock, volumes, cached
<1>2. /\ Calendar' /\ Ledger' /\ pc'[Counter] = "idle" /\ Knows'
      /\ stat' = stat => Table' /\ Cached' /\ RowsFair'
  BY <1>1, CounterStep
<1>3. week' \in [Sides -> Weeks] /\ day1' \in [Sides -> Amounts]
  BY <1>1 DEF NoVolume, Weeks, Amounts
<1>4. InHand'
  BY <1>2 DEF InHand
<1> DEFINE r == Row(preDay - 1, day1, week)
<1>5. CASE StorePoolStatistic(r) /\ UNCHANGED dbFaults
  <2>1. /\ stat \in Seq(PoolStats) /\ Len(stat) \in Nat /\ DOMAIN stat = 1..Len(stat)
        /\ \A i \in DOMAIN stat : stat[i] \in PoolStats
        /\ preDay \in Nat /\ preDay > 0
    BY <1>1, ElementIn DEF Kept, Calendar
  <2>2. \A i \in DOMAIN stat : stat[i].day < preDay - 1 /\ stat[i].day \in Int
    BY <1>1, <2>1 DEF Table, PoolStats
  <2>3. /\ r \in PoolStats /\ r.day = preDay - 1 /\ r.v1 = day1 /\ r.v7 = week
    BY <2>1 DEF Row, PoolStats, Kept
  <2> HIDE DEF r
  <2>4. stat' = Append(stat, r)
    <3>1. ~ \E i \in DOMAIN stat : stat[i].day = r.day
      BY <2>1, <2>2, <2>3
    <3>2. QED
      BY <3>1, <1>5 DEF StorePoolStatistic
  <2>5. /\ stat' \in Seq(PoolStats) /\ Len(stat') = Len(stat) + 1
        /\ DOMAIN stat' = 1..(Len(stat) + 1)
        /\ stat'[Len(stat) + 1] = r
        /\ \A i \in 1..Len(stat) : stat'[i] = stat[i]
    BY <2>1, <2>3, <2>4
  <2>6. \A i \in DOMAIN stat' : i \in DOMAIN stat \/ i = Len(stat) + 1
    BY <2>1, <2>5
  <2>7. Kept'
    BY <1>1, <1>3, <1>5, <2>5 DEF Kept
  <2>8. Table'
    <3>1. ASSUME NEW i \in DOMAIN stat' PROVE stat'[i].day < preDay
      <4>1. CASE i \in DOMAIN stat
        BY <4>1, <2>1, <2>2, <2>5
      <4>2. CASE i = Len(stat) + 1
        BY <4>2, <2>1, <2>3, <2>5
      <4>3. QED
        BY <4>1, <4>2, <2>6
    <3>2. ASSUME NEW i \in DOMAIN stat', NEW j \in DOMAIN stat', i < j
          PROVE  stat'[i].day < stat'[j].day
      <4>1. i \in DOMAIN stat
        BY <3>2, <2>1, <2>5
      <4>2. CASE j \in DOMAIN stat
        BY <4>1, <4>2, <3>2, <2>1, <2>5 DEF Table
      <4>3. CASE j = Len(stat) + 1
        BY <4>1, <4>3, <2>1, <2>2, <2>3, <2>5
      <4>4. QED
        BY <4>2, <4>3, <2>6
    <3>3. QED
      BY <1>1, <1>2, <3>1, <3>2 DEF Table
  <2>9. \A d : FairStays(d)
    BY <1>1, FairSame DEF FairStays
  <2>10. ASSUME NEW i \in DOMAIN stat'
         PROVE /\ stat'[i].day < 0 => stat'[i].v1 = NoVolume
               /\ stat'[i].day >= 0 =>
                    /\ \E n \in DOMAIN counted : counted[n].day = stat'[i].day
                    /\ \A k \in Sides : /\ Fair(stat'[i].v1[k], stat'[i].day)
                                        /\ Made(stat'[i].v7[k], i - 1, stat'[i].day, k)
    <3>1. CASE i \in DOMAIN stat
      <4>1. stat'[i] = stat[i]
        BY <3>1, <2>1, <2>5
      <4>2. QED
        BY <3>1, <4>1 DEF RowsFair
    <3>2. CASE i = Len(stat) + 1
      <4>1. stat'[i] = r /\ i - 1 = Len(stat)
        BY <3>2, <2>1, <2>5
      <4>2. ~(r.day < 0)
        BY <2>1, <2>3
      <4>3. \E n \in DOMAIN counted : counted[n].day = r.day
        BY <1>1, <2>3 DEF Ledger
      <4>4. \A k \in Sides : /\ Fair(r.v1[k], r.day)
                             /\ Made(r.v7[k], Len(stat), r.day, k)
        BY <1>1, <2>3 DEF InHand
      <4>5. QED
        BY <4>1, <4>2, <4>3, <4>4
    <3>3. QED
      BY <3>1, <3>2, <2>6
  <2>11. RowsFair'
    <3>1. ASSUME NEW i \in DOMAIN stat', NEW e, e = stat'[i], e.day >= 0, NEW k \in Sides
          PROVE  Fair(e.v1[k], e.day)' /\ Made(e.v7[k], i - 1, e.day, k)'
      <4>1. Fair(e.v1[k], e.day) /\ Made(e.v7[k], i - 1, e.day, k)
        BY <3>1, <2>10
      <4>2. \A j \in 1..(i - 1) : stat'[j] = stat[j]
        BY <3>1, <2>1, <2>5
      <4>3. FairStays(e.day)
        BY <2>9
      <4>4. QED
        BY <4>1, <4>2, <4>3, MadeKept DEF FairStays
    <3>2. QED
      BY <1>1, <2>10, <3>1 DEF RowsFair
  <2>12. Cached'
    <3>1. SUFFICES ASSUME cache # <<>>
          PROVE  \E a \in DOMAIN stat' :
                   /\ cache \in Seq(PoolStats) /\ Len(cache) > 0
                   /\ a + Len(cache) - 1 <= Len(stat')
                   /\ \A m \in 1..Len(cache) : cache[m] = stat'[a + m - 1]
                   /\ \A i \in DOMAIN stat' : i < a => stat'[i].day <= filled - StatDays
      BY <1>1 DEF Cached
    <3>2. PICK a \in DOMAIN stat :
            /\ cache \in Seq(PoolStats) /\ Len(cache) > 0
            /\ a + Len(cache) - 1 <= Len(stat)
            /\ \A m \in 1..Len(cache) : cache[m] = stat[a + m - 1]
            /\ \A i \in DOMAIN stat : i < a => stat[i].day <= filled - StatDays
      BY <3>1 DEF Cached
    <3>3. Len(cache) \in Nat /\ a \in 1..Len(stat) /\ a \in DOMAIN stat'
      BY <3>2, <2>1, <2>5
    <3>4. \A m \in 1..Len(cache) : a + m - 1 \in 1..Len(stat)
      BY <3>2, <3>3, <2>1
    <3>5. \A m \in 1..Len(cache) : cache[m] = stat'[a + m - 1]
      BY <3>2, <3>4, <2>5
    <3>6. \A i \in DOMAIN stat' : i < a => stat'[i].day <= filled - StatDays
      BY <3>2, <3>3, <2>1, <2>5
    <3>7. a + Len(cache) - 1 <= Len(stat')
      BY <3>2, <3>3, <2>1, <2>5
    <3>8. QED
      BY <3>2, <3>3, <3>5, <3>6, <3>7
  <2>13. QED
    BY <1>2, <1>4, <2>7, <2>8, <2>11, <2>12
<1>6. CASE DbFault /\ UNCHANGED stat
  <2>1. dbFaults' \in 0..MaxDbFaults
    BY <1>6, DayAssumption DEF Kept, DbFault
  <2>2. Kept'
    BY <1>1, <1>3, <1>6, <2>1 DEF Kept
  <2>3. QED
    BY <1>2, <1>4, <1>6, <2>2
<1>7. QED
  BY <1>5, <1>6 DEF CountStore

\* The rows from the first one that is young enough.
LEMMA SmallestOf ==
    ASSUME NEW T \in SUBSET Nat, T # {}
    PROVE  Min(T) \in T /\ \A y \in T : Min(T) <= y
<1>1. IsWellFoundedOn(OpToRel(<, Nat), Nat)
  BY NatLessThanWellFounded
<1>2. PICK n \in T : \A m \in T : ~ (<<m, n>> \in OpToRel(<, Nat))
  BY <1>1, WFMin, Zenon
<1>3. \A m \in T : m < n => <<m, n>> \in OpToRel(<, Nat)
  BY DEF OpToRel
<1>4. \A m \in T : ~ (m < n)
  BY <1>2, <1>3, Zenon
<1>5. \A m \in T : n <= m
  BY <1>4
<1>6. QED
  BY <1>5 DEF Min

LEMMA RowsSince ==
    ASSUME stat \in Seq(PoolStats), NEW since \in Int, GetPoolStatistic(since) # <<>>
    PROVE  \E a \in DOMAIN stat :
             /\ GetPoolStatistic(since) \in Seq(PoolStats)
             /\ Len(GetPoolStatistic(since)) > 0
             /\ a + Len(GetPoolStatistic(since)) - 1 <= Len(stat)
             /\ \A m \in 1..Len(GetPoolStatistic(since)) :
                   GetPoolStatistic(since)[m] = stat[a + m - 1]
             /\ \A i \in DOMAIN stat : i < a => stat[i].day <= since
<1> DEFINE young == {i \in DOMAIN stat : stat[i].day > since}
<1> DEFINE a == Min(young)
<1>1. /\ Len(stat) \in Nat /\ DOMAIN stat = 1..Len(stat)
      /\ \A i \in DOMAIN stat : stat[i] \in PoolStats
  BY ElementIn
<1>2. young # {} /\ GetPoolStatistic(since) = SubSeq(stat, a, Len(stat))
  BY DEF GetPoolStatistic
<1>3. young \in SUBSET Nat
  BY <1>1
<1>4. a \in young /\ \A y \in young : a <= y
  <2> HIDE DEF young
  <2>1. QED
    BY <1>2, <1>3, SmallestOf
<1>5. a \in 1..Len(stat)
  BY <1>1, <1>4
<1> HIDE DEF a
<1>6. \A i \in DOMAIN stat : i < a => stat[i].day <= since
  <2>1. SUFFICES ASSUME NEW i \in DOMAIN stat, i < a PROVE stat[i].day <= since
    OBVIOUS
  <2>2. i \in young => a <= i
    BY <1>4
  <2>3. stat[i].day \in Int
    BY <1>1 DEF PoolStats
  <2>4. QED
    BY <2>1, <2>2, <2>3, <1>1, <1>5
<1> HIDE DEF young
<1> DEFINE u == GetPoolStatistic(since)
<1>7. /\ u \in Seq(PoolStats) /\ Len(u) = Len(stat) - a + 1
      /\ \A m \in 1..Len(u) : u[m] = stat[a + m - 1]
  BY <1>1, <1>2, <1>5
<1> HIDE DEF u
<1>8. Len(u) > 0 /\ a + Len(u) - 1 <= Len(stat)
  BY <1>1, <1>5, <1>7
<1>9. a \in DOMAIN stat
  BY <1>1, <1>5
<1>10. /\ u \in Seq(PoolStats) /\ Len(u) > 0 /\ a + Len(u) - 1 <= Len(stat)
       /\ \A m \in 1..Len(u) : u[m] = stat[a + m - 1]
       /\ \A i \in DOMAIN stat : i < a => stat[i].day <= since
  BY <1>6, <1>7, <1>8
<1>11. QED
  BY <1>9, <1>10 DEF u

LEMMA HandleDay == IInv /\ DayInv /\ (\E c \in Clients : Handle(c)) => DayInv'
<1> SUFFICES ASSUME IInv, DayInv, NEW c \in Clients, Handle(c) PROVE DayInv'
  OBVIOUS
<1> USE DEF DayInv
<1>1. UNCHANGED <<now, dealt, first, last, before, preDay, week, day1, counted, stat>>
  BY DEF Handle, Reply, StatDay, StatPoolVolumes, clock, volumes, count
<1>2. \E l \in {"idle", "cache"} : Goto(c, l)
  BY DEF Handle, Reply, StatDay, StatPoolVolumes, StatDone
<1>3. pc'[Counter] = pc[Counter] /\ pc'[Consumer] = pc[Consumer]
  <2>1. c \in Procs /\ c # Counter /\ c # Consumer
    BY Names DEF Procs
  <2>2. QED
    BY <1>2, <2>1, GotoPc, Names
<1>4. Calendar' /\ Ledger' /\ Knows' /\ Table'
  BY <1>1, <1>3 DEF Calendar, Ledger, Knows, Table, Midnight
<1>5. RowsFair'
  BY <1>1, RowsSame
<1>6. InHand'
  <2>1. FairStays(preDay - 1)
    BY <1>1, FairSame DEF FairStays
  <2>2. QED
    BY <1>1, <1>3, <2>1, HandKept
<1>7. Kept' /\ Cached'
  <2>1. CASE Reply(c)
    BY <2>1, <1>1 DEF Reply, cached, Kept, Cached
  <2>2. CASE StatDay(c)
    <3>1. Day(now) \in Nat
      BY DayBounds DEF Kept
    <3>2. day' \in [Clients -> Nat]
      BY <2>2, <3>1 DEF StatDay, Kept
    <3>3. QED
      BY <2>2, <3>2, <1>1 DEF StatDay, Kept, Cached
  <2>3. CASE StatPoolVolumes(c)
    <3>1. day' \in [Clients -> Nat]
      BY <2>3 DEF StatPoolVolumes, StatDone, Kept
    <3>2. CASE Hit(c) /\ UNCHANGED <<cache, filled, dbFaults>>
      BY <3>1, <3>2, <1>1 DEF Kept, Cached
    <3>3. CASE ~Hit(c) /\ DbFault /\ UNCHANGED <<cache, filled>>
      <4>1. dbFaults' \in 0..MaxDbFaults
        BY <3>3, DayAssumption DEF Kept, DbFault
      <4>2. QED
        BY <3>1, <3>3, <4>1, <1>1 DEF Kept, Cached
    <3>4. CASE /\ ~Hit(c)
               /\ cache' = GetPoolStatistic(day[c] - StatDays) /\ filled' = day[c]
               /\ UNCHANGED dbFaults
      <4>1. stat \in Seq(PoolStats) /\ day[c] \in Nat /\ day[c] - StatDays \in Int
        BY DayAssumption DEF Kept
      <4>2. Kept'
        BY <3>1, <3>4, <4>1, <1>1 DEF Kept
      <4>3. Cached'
        <5>1. SUFFICES ASSUME cache' # <<>>
              PROVE  \E a \in DOMAIN stat :
                       /\ cache' \in Seq(PoolStats) /\ Len(cache') > 0
                       /\ a + Len(cache') - 1 <= Len(stat)
                       /\ \A m \in 1..Len(cache') : cache'[m] = stat[a + m - 1]
                       /\ \A i \in DOMAIN stat : i < a => stat[i].day <= day[c] - StatDays
          BY <3>4, <1>1 DEF Cached
        <5>2. QED
          BY <5>1, <3>4, <4>1, RowsSince
      <4>4. QED
        BY <4>2, <4>3
    <3>5. QED
      BY <2>3, <3>2, <3>3, <3>4 DEF StatPoolVolumes
  <2>4. QED
    BY <2>1, <2>2, <2>3 DEF Handle
<1>8. QED
  BY <1>4, <1>5, <1>6, <1>7

-----------------------------------------------------------------------------
(* The days: the invariant, and what follows from it *)

LEMMA FunctionSeq ==
    ASSUME NEW S, NEW n \in Nat, NEW f \in [1..n -> S]
    PROVE  f \in Seq(S)
OBVIOUS

LEMMA InitDay == Init => DayInv
<1> SUFFICES ASSUME Init PROVE DayInv
  OBVIOUS
<1> USE DEF Init
<1>1. /\ Start \in Nat /\ Day(Start) \in Nat /\ MaxDbFaults \in Nat
      /\ Midnight(Day(Start)) <= Start /\ Start < Midnight(Day(Start) + 1)
      /\ Jitter \in Nat
  BY DayBounds, DayAssumption
<1>2. /\ Earlier \in Seq(Int) /\ Len(Earlier) \in Nat /\ DOMAIN Earlier = 1..Len(Earlier)
      /\ \A i \in DOMAIN Earlier : /\ Earlier[i] \in Int /\ Earlier[i] < 0
                                   /\ \A j \in DOMAIN Earlier : i < j => Earlier[i] < Earlier[j]
  BY DayAssumption, ElementIn
<1>3. /\ DOMAIN stat = DOMAIN Earlier
      /\ \A i \in DOMAIN stat : /\ stat[i] \in PoolStats
                                /\ stat[i].day = Earlier[i] /\ stat[i].v1 = NoVolume
  <2>1. NoVolume \in [Sides -> Amounts] /\ NoVolume \in [Sides -> Weeks]
    BY DEF NoVolume, Amounts, Weeks
  <2>2. \A i \in DOMAIN Earlier : Row(Earlier[i], NoVolume, NoVolume) \in PoolStats
    BY <2>1, <1>2 DEF Row, PoolStats
  <2>3. QED
    BY <2>2 DEF EarlierRows, Row
<1>4. stat \in Seq(PoolStats)
  <2>1. stat \in [1..Len(Earlier) -> PoolStats]
    BY <1>2, <1>3 DEF EarlierRows
  <2>2. Len(Earlier) \in Nat
    BY <1>2
  <2> HIDE DEF Init
  <2>3. QED
    BY <2>1, <2>2, FunctionSeq
<1>5. Kept
  <2>1. week \in [Sides -> Weeks] /\ day1 \in [Sides -> Amounts]
    BY DEF NoVolume, Amounts, Weeks
  <2>2. dealt \in Seq(Nat) /\ counted \in Seq([day : Nat, last : Nat])
    OBVIOUS
  <2>3. day \in [Clients -> Nat] /\ filled \in Nat /\ dbFaults \in 0..MaxDbFaults
    BY <1>1
  <2>4. now \in Nat /\ preDay \in Nat
    BY <1>1
  <2>5. QED
    BY <1>4, <2>1, <2>2, <2>3, <2>4 DEF Kept
<1>6. pc[Counter] = "idle"
  BY Names
<1>7. Calendar
  <2>1. Midnight(Day(Start) + 1) \in Int
    BY <1>1, MidnightOf
  <2>2. QED
    BY <1>1, <1>6, <2>1 DEF Calendar
<1>8. DOMAIN counted = {}
  OBVIOUS
<1>9. Ledger /\ Knows
  BY <1>6, <1>8 DEF Ledger, Knows
<1>10. Table
  <2>1. \A i \in DOMAIN stat : stat[i].day < preDay
    BY <1>1, <1>2, <1>3
  <2>2. \A i, j \in DOMAIN stat : i < j => stat[i].day < stat[j].day
    BY <1>2, <1>3
  <2>3. QED
    BY <1>6, <2>1, <2>2 DEF Table
<1>11. RowsFair
  <2>1. \A i \in DOMAIN stat : ~(stat[i].day >= 0) /\ stat[i].v1 = NoVolume
    BY <1>2, <1>3
  <2>2. QED
    BY <2>1 DEF RowsFair
<1>12. InHand /\ Cached
  BY <1>6 DEF InHand, Cached
<1>13. QED
  BY <1>5, <1>7, <1>9, <1>10, <1>11, <1>12 DEF DayInv

LEMMA NextDay == IInv /\ DayInv /\ [Next]_vars => DayInv'
<1> SUFFICES ASSUME IInv, DayInv, [Next]_vars PROVE DayInv'
  OBVIOUS
<1>1. CASE Deal
  BY <1>1, DealDay
<1>2. CASE Tick
  BY <1>2, TickDay
<1>3. ASSUME NEW p \in Procs, Lock(p) PROVE DayInv'
  BY <1>3, LockOtherDay, LockCounterDay
<1>4. ASSUME NEW p \in Procs, SubFirst(p) \/ SubSecond(p) \/ Unlock(p) PROVE DayInv'
  BY <1>4, SubFirstDay, SubSecondDay, UnlockDay
<1>5. CASE LockAgain \/ AddFirst \/ AddSecond
  BY <1>5, LockAgainDay, AddFirstDay, AddSecondDay
<1>6. CASE Count
  BY <1>6, NoticeDayDay, CountWeekDay, CountDayDay, CountStoreDay DEF Count
<1>7. CASE \E c \in Clients : Handle(c)
  BY <1>7, HandleDay
<1>8. CASE UNCHANGED vars
  <2>1. /\ QueueOnly /\ UNCHANGED <<first, last, before, pc>>
    BY <1>8 DEF QueueOnly, vars, clock, volumes, count, cached
  <2>2. Knows'
    BY <2>1 DEF QueueOnly, DayInv, Knows, Midnight
  <2>3. QED
    BY <2>1, <2>2, LastTyped, QueueStep
<1>9. QED
  BY <1>1, <1>2, <1>3, <1>4, <1>5, <1>6, <1>7, <1>8 DEF Next

LEMMA DaysInductive == Spec => [](IInv /\ DayInv)
<1>1. Init => IInv /\ DayInv
  BY InitIInv, InitDay
<1>2. IInv /\ DayInv /\ [Next]_vars => (IInv /\ DayInv)'
  BY NextIInv, NextDay
<1>3. QED
  BY <1>1, <1>2, PTL DEF Spec

LEMMA DayTypes == IInv /\ DayInv => TypeOK
<1> SUFFICES ASSUME IInv, DayInv PROVE TypeOK
  OBVIOUS
<1> USE DEF IInv, DayInv
<1>1. /\ now \in Nat /\ dealt \in Seq(Nat) /\ preDay \in Nat /\ dbFaults \in 0..MaxDbFaults
      /\ stat \in Seq(PoolStats)
      /\ week \in [Sides -> Weeks] /\ day1 \in [Sides -> Amounts]
  BY DEF Kept
<1>2. /\ first \in Nat \ {0} /\ last \in 0..Len(dealt) /\ first <= last + 1
      /\ DOMAIN sum = Sides /\ mu \in Procs \cup {Free} /\ before \in Int
      /\ pc \in [Procs -> Labels]
  BY DEF Types
<1>3. \A k \in Sides : sum[k] \subseteq Nat
  <2>1. first \in Nat /\ last \in Nat
    BY DEF Types
  <2>2. QED
    BY <2>1 DEF Sums, Sides
<1>4. \A v \in Amounts : IsAmount(v)
  BY DEF Amounts, IsAmount
<1>5. \A k \in Sides : IsAmount(day1[k])
  BY <1>1, <1>4
<1>6. \A k \in Sides : \A v \in week[k] : v[1] \in Int /\ IsAmount(v[2])
  <2>1. \A k \in Sides : week[k] \subseteq Int \X Amounts
    BY <1>1 DEF Weeks
  <2>2. QED
    BY <2>1, <1>4
<1>7. \A i \in DOMAIN stat : /\ stat[i].day \in Int
                             /\ \A k \in Sides : IsAmount(stat[i].v1[k])
                             /\ i < Len(stat) => stat[i].day < stat[i + 1].day
  <2>1. Len(stat) \in Nat /\ DOMAIN stat = 1..Len(stat) /\ \A i \in DOMAIN stat : stat[i] \in PoolStats
    BY <1>1, ElementIn
  <2>2. \A i \in DOMAIN stat : stat[i].day \in Int /\ \A k \in Sides : IsAmount(stat[i].v1[k])
    BY <2>1, <1>4 DEF PoolStats
  <2>3. ASSUME NEW i \in DOMAIN stat, i < Len(stat) PROVE stat[i].day < stat[i + 1].day
    <3>1. i + 1 \in DOMAIN stat /\ i < i + 1
      BY <2>1, <2>3
    <3>2. QED
      BY <3>1 DEF Table
  <2>4. QED
    BY <2>2, <2>3
<1>8. QED
  BY <1>1, <1>2, <1>3, <1>5, <1>6, <1>7 DEF TypeOK

LEMMA DayCountedOnce == IInv /\ DayInv => CountedOnce
<1> SUFFICES ASSUME IInv, DayInv,
                    NEW i \in DOMAIN stat, NEW k \in Sides, NEW s \in DOMAIN dealt,
                    stat[i].v1[k] # Torn, NEW n \in DOMAIN counted,
                    s <= counted[n].last, Within(s, counted[n].day)
             PROVE  s \in stat[i].v1[k] <=> stat[i].day = counted[n].day
  BY DEF CountedOnce
<1> DEFINE d == counted[n].day
           e == stat[i].day
           v == stat[i].v1[k]
<1>1. /\ counted \in Seq([day : Nat, last : Nat]) /\ DOMAIN counted = 1..Len(counted)
      /\ Len(counted) \in Nat
      /\ \A m \in DOMAIN counted : counted[m] \in [day : Nat, last : Nat]
  BY ElementIn DEF DayInv, Kept
<1>2. d \in Nat /\ counted[n].last \in Nat
  BY <1>1
<1>3. e \in Int
  <2>1. stat[i] \in PoolStats
    BY ElementIn DEF DayInv, Kept
  <2>2. QED
    BY <2>1 DEF PoolStats
<1>4. dealt[s] \in Nat /\ s \in 1..counted[n].last
  <2>1. dealt \in Seq(Nat)
    BY DEF DayInv, Kept
  <2>2. dealt[s] \in Nat /\ s \in 1..Len(dealt) /\ Len(dealt) \in Nat
    BY <2>1, ElementIn
  <2>3. QED
    BY <2>2, <1>2
<1>5. Midnight(d) + Jitter < dealt[s] /\ dealt[s] < Midnight(d + 1)
  BY DEF Within
<1>6. /\ Midnight(d) \in Int /\ Midnight(d + 1) \in Int
      /\ Midnight(e) \in Int /\ Midnight(e + 1) \in Int
      /\ e < d => Midnight(e + 1) <= Midnight(d)
      /\ d < e => Midnight(d + 1) <= Midnight(e)
      /\ Jitter \in Int
  <2>1. d \in Int
    BY <1>2
  <2>2. /\ Midnight(d) \in Int /\ Midnight(d + 1) \in Int
        /\ Midnight(e) \in Int /\ Midnight(e + 1) \in Int
    BY <2>1, <1>3, MidnightOf
  <2>3. /\ e < d => Midnight(e + 1) <= Midnight(d)
        /\ d < e => Midnight(d + 1) <= Midnight(e)
    BY <2>1, <1>3, MidnightGrows
  <2>4. QED
    BY <2>2, <2>3, DayAssumption
<1>7. CASE e < 0
  <2>1. v = {}
    BY <1>7 DEF DayInv, RowsFair, NoVolume
  <2>2. QED
    BY <2>1, <1>2, <1>3, <1>7
<1>8. CASE e >= 0
  <2>1. Fair(v, e) /\ \E m \in DOMAIN counted : counted[m].day = e
    BY <1>8 DEF DayInv, RowsFair
  <2>2. CASE e = d
    <3>1. dealt[s] >= Midnight(d) + Jitter => s \in v
      BY <2>1, <2>2, <1>4 DEF Fair
    <3>2. QED
      BY <3>1, <2>2, <1>4, <1>5, <1>6
  <2>3. CASE e < d
    <3>1. s \in v => dealt[s] <= Midnight(e + 1) + Jitter
      BY <2>1 DEF Fair
    <3>2. s \notin v
      BY <3>1, <2>3, <1>4, <1>5, <1>6
    <3>3. QED
      BY <3>2, <2>3, <1>2, <1>3
  <2>4. CASE d < e
    <3>1. PICK m \in DOMAIN counted : counted[m].day = e
      BY <2>1
    <3>2. n < m
      <4>1. m < n => counted[m].day < counted[n].day
        BY DEF DayInv, Ledger
      <4>2. m # n
        BY <3>1, <2>4, <1>2
      <4>3. QED
        BY <4>1, <4>2, <3>1, <2>4, <1>1, <1>2, <1>3
    <3>3. counted[n].last <= counted[m].last /\ counted[m].last \in Nat
      BY <3>2, <1>1 DEF DayInv, Ledger
    <3>4. s \in 1..counted[m].last
      BY <3>3, <1>2, <1>4
    <3>5. s \in v => dealt[s] >= Midnight(e)
      BY <3>1, <3>4, <2>1 DEF Fair
    <3>6. s \notin v
      BY <3>5, <2>4, <1>4, <1>5, <1>6
    <3>7. QED
      BY <3>6, <2>4, <1>2, <1>3
  <2>5. QED
    BY <2>2, <2>3, <2>4, <1>2, <1>3
<1>9. QED
  BY <1>3, <1>7, <1>8

LEMMA DayWeeks == IInv /\ DayInv => WeekOfDays
<1> SUFFICES ASSUME IInv, DayInv, NEW i \in DOMAIN stat, NEW k \in Sides, stat[i].day >= 0,
                    NEW d, d = stat[i].day, NEW v7, v7 = stat[i].v7[k],
                    NEW v1, v1 = stat[i].v1[k]
             PROVE  /\ {v \in v7 : v[1] # d} =
                         {<<stat[j].day, stat[j].v1[k]>> :
                             j \in {n \in 1..(i - 1) : stat[n].day > d - WeekDays}}
                    /\ \E v \in v7 : v[1] = d
                    /\ \A v \in v7, n \in DOMAIN counted :
                          v[1] = d /\ counted[n].day = d /\ v[2] # Torn /\ v1 # Torn =>
                             \A s \in 1..counted[n].last :
                                dealt[s] >= Midnight(d) + Jitter => (s \in v[2] <=> s \in v1)
  BY DEF WeekOfDays
<1>1. Fair(v1, d) /\ Made(v7, i - 1, d, k)
  BY DEF DayInv, RowsFair
<1>2. PICK w \in Amounts : Fair(w, d) /\ v7 = Parts(i - 1, d, k) \cup {<<d, w>>}
  BY <1>1 DEF Made
<1>3. \A v \in Parts(i - 1, d, k) : v[1] # d
  <2>1. Len(stat) \in Nat /\ DOMAIN stat = 1..Len(stat) /\ \A j \in DOMAIN stat : stat[j] \in PoolStats
    BY ElementIn DEF DayInv, Kept
  <2>2. \A j \in 1..(i - 1) : j \in DOMAIN stat /\ j < i
    BY <2>1
  <2>3. \A j \in 1..(i - 1) : stat[j].day < d /\ stat[j].day \in Int /\ d \in Int
    BY <2>1, <2>2 DEF DayInv, Table, PoolStats
  <2>4. \A j \in 1..(i - 1) : stat[j].day # d
    BY <2>3
  <2>5. QED
    BY <2>4 DEF Parts
<1>4. {v \in v7 : v[1] # d} = Parts(i - 1, d, k)
  BY <1>2, <1>3
<1>5. \A v \in v7 : v[1] = d => v = <<d, w>>
  BY <1>2, <1>3
<1>6. ASSUME NEW v \in v7, NEW n \in DOMAIN counted,
             v[1] = d, counted[n].day = d, v[2] # Torn, v1 # Torn,
             NEW s \in 1..counted[n].last, dealt[s] >= Midnight(d) + Jitter
      PROVE  s \in v[2] /\ s \in v1
  <2>1. v[2] = w
    BY <1>5, <1>6
  <2>2. QED
    BY <2>1, <1>1, <1>2, <1>6 DEF Fair
<1>7. \E v \in v7 : v[1] = d
  <2>1. <<d, w>> \in v7
    BY <1>2
  <2>2. <<d, w>>[1] = d
    OBVIOUS
  <2>3. QED
    BY <2>1, <2>2
<1>8. QED
  BY <1>4, <1>6, <1>7 DEF Parts

LEMMA LargerOf ==
    ASSUME NEW a \in Int, NEW b \in Int
    PROVE  Max({a, b}) \in Int /\ Max({a, b}) >= a /\ Max({a, b}) >= b
<1>1. \E x \in {a, b} : \A y \in {a, b} : x >= y
  OBVIOUS
<1>2. Max({a, b}) \in {a, b} /\ \A y \in {a, b} : Max({a, b}) >= y
  BY <1>1, Zenon DEF Max
<1>3. QED
  BY <1>2

LEMMA DayAnswers == IInv /\ DayInv => AnswerComplete
<1> SUFFICES ASSUME IInv, DayInv, NEW c \in Clients, Hit(c), NEW i \in DOMAIN stat,
                    Max({day[c], filled}) - StatDays < stat[i].day, stat[i].day < day[c]
             PROVE  \E m \in 1..Len(cache) : cache[m] = stat[i]
  BY DEF AnswerComplete, Contains
<1> USE DEF DayInv
<1>1. PICK a \in DOMAIN stat :
        /\ cache \in Seq(PoolStats) /\ Len(cache) > 0
        /\ a + Len(cache) - 1 <= Len(stat)
        /\ \A m \in 1..Len(cache) : cache[m] = stat[a + m - 1]
        /\ \A j \in DOMAIN stat : j < a => stat[j].day <= filled - StatDays
  BY DEF Hit, Cached
<1>2. /\ Len(stat) \in Nat /\ DOMAIN stat = 1..Len(stat) /\ Len(cache) \in Nat
      /\ \A j \in DOMAIN stat : stat[j] \in PoolStats
  BY <1>1, ElementIn DEF Kept
<1>3. /\ \A j \in DOMAIN stat : stat[j].day \in Int
      /\ day[c] \in Nat /\ filled \in Nat /\ StatDays \in Nat
  BY <1>2, DayAssumption DEF PoolStats, Kept
<1>4. filled - StatDays < stat[i].day
  <2>1. Max({day[c], filled}) \in Int /\ Max({day[c], filled}) >= filled
    <3>1. day[c] \in Int /\ filled \in Int
      BY <1>3
    <3>2. QED
      BY <3>1, LargerOf, Zenon
  <2>2. QED
    BY <2>1, <1>3
<1>5. ~(i < a)
  BY <1>1, <1>3, <1>4
<1> DEFINE b == a + Len(cache) - 1
<1>6. b \in DOMAIN stat /\ stat[b].day = day[c] - 1
  <2>1. b \in DOMAIN stat /\ cache[Len(cache)] = stat[b]
    BY <1>1, <1>2
  <2>2. QED
    BY <2>1 DEF Hit, Last
<1>7. ~(b < i)
  <2>1. b < i => stat[b].day < stat[i].day
    BY <1>6 DEF Table
  <2>2. stat[b].day \in Int /\ stat[i].day \in Int
    BY <1>3, <1>6
  <2>3. QED
    BY <2>1, <2>2, <1>3, <1>6
<1>8. i - a + 1 \in 1..Len(cache) /\ a + (i - a + 1) - 1 = i
  BY <1>1, <1>2, <1>5, <1>6, <1>7
<1>9. QED
  BY <1>1, <1>8

\* The types of all variables of the volumes, the counter and the handlers.
THEOREM DayTypesOK == Spec => []TypeOK
BY DaysInductive, DayTypes, PTL

\* The stored statistics are those of the swaps: a swap that was known when its day
\* was counted is in the volume of that day and of no other, and the weekly volume is
\* made of the stored days before and of the day that ended, although swaps come in and
\* leave while the counter reads (countVolumes, service/api.go).
THEOREM DaysRight == Spec => []DaysCounted
<1>1. IInv /\ DayInv => DaysCounted
  BY DayCountedOnce, DayWeeks DEF DaysCounted
<1>2. QED
  BY <1>1, DaysInductive, PTL

\* For any number of requests the cached rows are all those of the table between the
\* days of the request, or of the one that filled the cache, and yesterday
\* (StatPoolVolumes, service/api.go).
THEOREM AnswersComplete == Spec => []AnswerComplete
BY DaysInductive, DayAnswers, PTL
=============================================================================
