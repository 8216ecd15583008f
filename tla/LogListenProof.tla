--------------------------- MODULE LogListenProof ---------------------------
(***************************************************************************)
(* Proofs about LogListen: what becomes of every notification, and that a  *)
(* subscription is a reader LogFeed allows.                                *)
(***************************************************************************)
EXTENDS LogListen, SequenceTheorems, TLAPS

Notes == [log : Nat, removed : BOOLEAN]
Types == stream \in Seq(Notes) /\ TypeOK

\* What was sent or reported lies before the cursor, in order; what was missed does not
\* wait in the subscription; together they are everything.
Accounted ==
    /\ \A i \in DOMAIN sent : sent[i] < next
    /\ \A n \in undealt : n < next
    /\ \A i, j \in DOMAIN sent : i < j => sent[i] < sent[j]
    /\ Pending \cap missed = {}
    /\ (Sent \cup undealt) \cap missed = {}
    /\ 1..Top = Sent \cup undealt \cup Pending \cup missed

\* A log comes a second time as removed only.
TwiceRemoved ==
    \A i, j \in 1..Top : i < j /\ stream[i].log = stream[j].log => stream[j].removed

IInv == Types /\ Accounted /\ TwiceRemoved
-----------------------------------------------------------------------------
\* Appending to a sequence adds one element to its range and nothing to its order.
LEMMA AppendRange ==
    ASSUME NEW S, NEW s \in Seq(S), NEW e \in S
    PROVE  /\ Append(s, e) \in Seq(S) /\ Len(Append(s, e)) = Len(s) + 1
           /\ DOMAIN s = 1..Len(s) /\ DOMAIN Append(s, e) = 1..(Len(s) + 1)
           /\ \A i \in 1..Len(s) : Append(s, e)[i] = s[i]
           /\ Append(s, e)[Len(s) + 1] = e
           /\ Len(s) \in Nat
OBVIOUS

LEMMA AtMostOnePast ==
    ASSUME NEW a \in Int, NEW b \in Int, NEW c \in Int, a <= b + 1, b <= c
    PROVE  a <= c + 1
OBVIOUS

\* The elements of a sequence.
LEMMA SeqRange ==
    ASSUME NEW S, NEW s \in Seq(S)
    PROVE  \A i \in DOMAIN s : s[i] \in S
OBVIOUS

\* A sequence without its first element.
LEMMA TailSeq ==
    ASSUME NEW S, NEW s \in Seq(S), s # <<>>
    PROVE  Tail(s) \in Seq(S) /\ Len(Tail(s)) <= Len(s) /\ Len(s) \in Nat
OBVIOUS

\* A sequence of numbers up to a is one of numbers up to a + 1.
LEMMA SeqWider ==
    ASSUME NEW a \in Nat, NEW s \in Seq(1..a)
    PROVE  s \in Seq(1..(a + 1))
<1>1. \A i \in 1..Len(s) : s[i] \in 1..(a + 1)
    OBVIOUS
<1>2. s = [i \in 1..Len(s) |-> s[i]] /\ Len(s) \in Nat
    OBVIOUS
<1> QED
    BY <1>1, <1>2

\* The prefix without the last element.
LEMMA FrontSeq ==
    ASSUME NEW S, NEW s \in Seq(S), s # <<>>
    PROVE  SubSeq(s, 1, Len(s) - 1) \in Seq(S) /\ s[Len(s)] \in S
OBVIOUS

\* What was sent, when one more notification is.
LEMMA SentMore ==
    ASSUME NEW e \in 1..Top, sent \in Seq(1..Top), sent' = Append(sent, e)
    PROVE  Sent' = Sent \cup {e}
<1>1. /\ DOMAIN sent = 1..Len(sent) /\ DOMAIN sent' = 1..(Len(sent) + 1)
      /\ \A i \in 1..Len(sent) : sent'[i] = sent[i]
      /\ sent'[Len(sent) + 1] = e /\ Len(sent) \in Nat
    BY AppendRange
<1> QED
    BY <1>1 DEF Sent
-----------------------------------------------------------------------------
LEMMA InitInv == Init => IInv
<1> SUFFICES ASSUME Init PROVE IInv
    OBVIOUS
<1>1. stream = <<>> /\ Top = 0 /\ DOMAIN stream = {} /\ DOMAIN sent = {}
    BY DEF Init, Top
<1>2. chain \in Seq(1..Top) /\ channel \in Seq(1..Top) /\ sent \in Seq(1..Top)
      /\ stream \in Seq(Notes) /\ Len(channel) <= Capacity
    BY ListenAssumption DEF Init
<1>3. TypeOK
  <2>1. pc = "dial" /\ live = FALSE /\ next = 1 /\ end = 0 /\ faults = 0 /\ crashes = 0
        /\ dealt = {} /\ undealt = {} /\ missed = {}
    BY DEF Init
  <2>2. 0 \in 0..MaxFaults /\ 0 \in 0..MaxCrashes
    BY ListenAssumption
  <2>3. live \in BOOLEAN /\ ~live
    BY <2>1
  <2>4. next \in 1..(Top + 1) /\ end \in 0..Top /\ next <= end + 1
        /\ dealt \subseteq 1..Top /\ undealt \subseteq 1..Top /\ missed \subseteq 1..Top
    BY <1>1, <2>1
  <2>5. pc \in {"down", "dial", "subscribe", "select", "deal"} /\ pc # "deal"
        /\ faults \in 0..MaxFaults /\ crashes \in 0..MaxCrashes
    BY <2>1, <2>2
  <2> QED
    BY <1>1, <1>2, <2>3, <2>4, <2>5 DEF TypeOK
<1>4. Sent = {} /\ undealt = {} /\ missed = {} /\ Pending = {} /\ 1..Top = {}
    BY <1>1 DEF Init, Sent, Pending
<1>5. Accounted
    BY <1>1, <1>4 DEF Accounted
<1>6. TwiceRemoved
    BY <1>1 DEF TwiceRemoved
<1> QED
    BY <1>2, <1>3, <1>5, <1>6 DEF IInv, Types

\* The chain gets a notification that is new, or one that takes an old one back.
LEMMA NotifyKeeps ==
    ASSUME IInv, NEW n \in Notes, Notify(n), chain' \in Seq(1..(Top + 1)),
           n.log \in 1..(Top + 1), n.log = Top + 1 \/ n.removed
    PROVE  IInv'
<1> DEFINE t == Top + 1
<1>1. stream' = Append(stream, n) /\ stream \in Seq(Notes) /\ Top \in Nat /\ Top' = t
    BY DEF Notify, IInv, Types, Top
<1>2. /\ DOMAIN stream = 1..Top /\ DOMAIN stream' = 1..t
      /\ \A i \in 1..Top : stream'[i] = stream[i]
      /\ stream'[t] = n /\ stream' \in Seq(Notes)
    BY <1>1, AppendRange DEF Top
<1>3. UNCHANGED <<pc, next, channel, faults, crashes, dealt, sent, undealt>>
    BY DEF Notify
<1>4. \/ live /\ end' = t /\ UNCHANGED <<live, missed>>
      \/ live' = FALSE /\ missed' = missed \cup {t} /\ UNCHANGED end
    BY DEF Notify
<1>5. TypeOK
    BY DEF IInv, Types
<1>6. channel' \in Seq(1..t) /\ sent' \in Seq(1..t)
    BY <1>1, <1>3, <1>5, SeqWider DEF TypeOK
<1>7. \A i \in 1..t : stream'[i].log \in 1..i
  <2>1. \A i \in 1..Top : stream[i].log \in 1..i
    BY <1>2, <1>5 DEF TypeOK
  <2>2. \A i \in 1..t : i \in 1..Top \/ i = t
    BY <1>1
  <2> QED
    BY <1>2, <2>1, <2>2
<1>8. TypeOK'
  <2>1. /\ pc' \in {"down", "dial", "subscribe", "select", "deal"}
        /\ Len(channel') <= Capacity /\ faults' \in 0..MaxFaults /\ crashes' \in 0..MaxCrashes
    BY <1>3, <1>5 DEF TypeOK
  <2>2. live' \in BOOLEAN
    BY <1>4, <1>5 DEF TypeOK
  <2>3. live' => pc' \in {"select", "deal"} /\ end' = t
    BY <1>3, <1>4, <1>5 DEF TypeOK
  <2>4. live => end = Top
    BY <1>5 DEF TypeOK
  <2>5. next' \in 1..(t + 1) /\ end' \in 0..t /\ next' <= end' + 1
        /\ (pc' = "deal" => next' <= end')
    <3>1. next \in 1..(Top + 1) /\ end \in 0..Top /\ next <= end + 1
          /\ (pc = "deal" => next <= end)
      BY <1>5 DEF TypeOK
    <3>2. end' \in {end, t} /\ end <= end' /\ end' \in 0..t
      BY <1>1, <1>4, <3>1
    <3>3. next \in Int /\ end \in Int /\ end' \in Int
      BY <1>1, <3>1, <3>2
    <3>4. next <= end' + 1
      <4>1. next <= end + 1 /\ end <= end'
        BY <3>1, <3>2
      <4> QED
        BY <3>3, <4>1, AtMostOnePast
    <3>5. next' = next /\ next \in 1..(t + 1)
      BY <1>1, <1>3, <3>1
    <3>6. pc' = "deal" => next' <= end'
      BY <1>1, <1>3, <3>1, <3>2
    <3> QED
      BY <3>2, <3>4, <3>5, <3>6
  <2>6. dealt' \subseteq 1..t /\ undealt' \subseteq 1..t /\ missed' \subseteq 1..t
    <3>1. dealt \subseteq 1..Top /\ undealt \subseteq 1..Top /\ missed \subseteq 1..Top
      BY <1>5 DEF TypeOK
    <3>2. 1..Top \subseteq 1..t /\ t \in 1..t
      BY <1>1
    <3> QED
      BY <1>3, <1>4, <3>1, <3>2
  <2> QED
    BY <1>1, <1>2, <1>6, <1>7, <2>1, <2>2, <2>3, <2>5, <2>6 DEF TypeOK
<1>9. Sent' = Sent /\ Sent \subseteq 1..Top
  <2>1. sent \in Seq(1..Top)
    BY <1>5 DEF TypeOK
  <2>2. \A i \in DOMAIN sent : sent[i] \in 1..Top
    BY <2>1, SeqRange
  <2> QED
    BY <1>3, <2>2 DEF Sent
<1>10. Accounted'
  <2>1. 1..t = (1..Top) \cup {t}
    BY <1>1
  <2>2. \/ Pending' = Pending \cup {t} /\ missed' = missed
        \/ Pending' = Pending /\ missed' = missed \cup {t}
    <3>1. CASE live /\ end' = t /\ UNCHANGED <<live, missed>>
      <4>1. end = Top /\ pc \in {"select", "deal"} /\ next \in Nat /\ next <= Top + 1
        BY <1>5, <3>1 DEF TypeOK
      <4>2. next..t = (next..Top) \cup {t}
        BY <1>1, <4>1
      <4> QED
        BY <1>3, <3>1, <4>1, <4>2 DEF Pending
    <3>2. CASE live' = FALSE /\ missed' = missed \cup {t} /\ UNCHANGED end
      BY <1>3, <3>2 DEF Pending
    <3> QED
      BY <1>4, <3>1, <3>2
  <2>3. Pending \subseteq 1..Top /\ missed \subseteq 1..Top /\ undealt \subseteq 1..Top
        /\ t \notin 1..Top
    <3>1. missed \subseteq 1..Top /\ undealt \subseteq 1..Top
      BY <1>5 DEF TypeOK
    <3>2. Pending = {} \/ (Pending = next..end /\ next \in 1..(Top + 1) /\ end \in 0..Top)
      BY <1>5 DEF Pending, TypeOK
    <3>3. Pending \subseteq 1..Top
      BY <1>1, <3>2
    <3>4. t \notin 1..Top
      BY <1>1
    <3> QED
      BY <3>1, <3>3, <3>4
  <2>4. Accounted
    BY DEF IInv
  <2>5. Pending' \cap missed' = {} /\ (Sent' \cup undealt') \cap missed' = {}
    BY <1>3, <1>9, <2>2, <2>3, <2>4 DEF Accounted
  <2>6. 1..Top' = Sent' \cup undealt' \cup Pending' \cup missed'
    BY <1>1, <1>3, <1>9, <2>1, <2>2, <2>4 DEF Accounted
  <2> QED
    BY <1>3, <2>4, <2>5, <2>6 DEF Accounted
<1>11. TwiceRemoved'
  <2>1. \A i \in 1..Top : stream'[i].log # t
    BY <1>1, <1>2, <1>7
  <2>2. ASSUME NEW i \in 1..t, NEW j \in 1..t, i < j, stream'[i].log = stream'[j].log
        PROVE  stream'[j].removed
    <3>1. CASE j = t
      BY <1>1, <1>2, <2>1, <2>2, <3>1
    <3>2. CASE j # t
      BY <1>1, <1>2, <2>2, <3>2 DEF IInv, TwiceRemoved
    <3> QED
      BY <3>1, <3>2
  <2> QED
    BY <1>1, <2>2 DEF TwiceRemoved
<1> QED
    BY <1>2, <1>8, <1>10, <1>11 DEF IInv, Types

LEMMA NewLogKeeps == IInv /\ NewLog => IInv'
<1> SUFFICES ASSUME IInv, NewLog PROVE IInv'
    OBVIOUS
<1>1. Top \in Nat /\ chain \in Seq(1..(Top + 1))
    BY SeqWider DEF IInv, Types, TypeOK, Top
<1>2. chain' \in Seq(1..(Top + 1))
    BY <1>1, AppendRange DEF NewLog
<1>3. [log |-> Top + 1, removed |-> FALSE] \in Notes
    BY <1>1 DEF Notes
<1> QED
    BY <1>1, <1>2, <1>3, NotifyKeeps DEF NewLog

LEMMA ReorgKeeps == IInv /\ Reorg => IInv'
<1> SUFFICES ASSUME IInv, Reorg PROVE IInv'
    OBVIOUS
<1> DEFINE lost == chain[Len(chain)]
<1>1. Top \in Nat /\ chain \in Seq(1..(Top + 1)) /\ chain # <<>>
    BY SeqWider DEF IInv, Types, TypeOK, Top, Reorg
<1>2. chain' \in Seq(1..(Top + 1)) /\ lost \in 1..(Top + 1)
    BY <1>1, FrontSeq DEF Reorg
<1>3. [log |-> lost, removed |-> TRUE] \in Notes
    BY <1>1, <1>2 DEF Notes
<1> QED
    BY <1>2, <1>3, NotifyKeeps DEF Reorg
-----------------------------------------------------------------------------
\* A notification is handed over or given up: it leaves the subscription.
LEMMA DealKeeps ==
    ASSUME IInv, pc = "deal", pc' = "select", next' = next + 1,
           UNCHANGED <<world, live, end, crashes, missed>>,
           faults' \in 0..MaxFaults,
           dealt' = dealt \cup {next},
           channel' \in Seq(1..Top) /\ Len(channel') <= Capacity,
           \/ sent' = Append(sent, next) /\ undealt' = undealt
           \/ sent' = sent /\ undealt' = undealt \cup {next}
    PROVE  IInv'
<1>1. TypeOK /\ Top \in Nat /\ Top' = Top /\ UNCHANGED <<chain, stream>>
    BY DEF IInv, Types, Top, world
<1>2. next \in 1..Top /\ end \in 1..Top /\ next <= end
    BY <1>1 DEF TypeOK
<1>3. sent \in Seq(1..Top) /\ sent' \in Seq(1..Top)
  <2>1. sent \in Seq(1..Top)
    BY <1>1 DEF TypeOK
  <2>2. Append(sent, next) \in Seq(1..Top)
    BY <1>2, <2>1, AppendRange
  <2> QED
    BY <2>1, <2>2
<1>4. Sent' \cup undealt' = Sent \cup undealt \cup {next}
  <2>1. CASE sent' = Append(sent, next) /\ undealt' = undealt
    BY <1>2, <1>3, <2>1, SentMore
  <2>2. CASE sent' = sent /\ undealt' = undealt \cup {next}
    BY <2>2 DEF Sent
  <2> QED
    BY <2>1, <2>2
<1>5. Pending = Pending' \cup {next} /\ next \notin Pending'
  <2>1. next..end = ((next + 1)..end) \cup {next}
    BY <1>2
  <2> QED
    BY <1>2, <2>1 DEF Pending
<1>6. Types'
  <2>1. undealt' \subseteq 1..Top /\ dealt' \subseteq 1..Top
    BY <1>1, <1>2 DEF TypeOK
  <2>2. next' \in 1..(Top + 1) /\ next' <= end + 1
    BY <1>1, <1>2
  <2> QED
    BY <1>1, <1>3, <2>1, <2>2 DEF IInv, Types, TypeOK
<1>7. /\ \A i \in DOMAIN sent' : sent'[i] < next'
      /\ \A i, j \in DOMAIN sent' : i < j => sent'[i] < sent'[j]
  <2>1. /\ \A i \in DOMAIN sent : sent[i] < next /\ sent[i] \in 1..Top
        /\ \A i, j \in DOMAIN sent : i < j => sent[i] < sent[j]
    <3>1. \A i \in DOMAIN sent : sent[i] \in 1..Top
      BY <1>3, SeqRange
    <3> QED
      BY <3>1 DEF IInv, Accounted
  <2>2. CASE sent' = sent
    <3>1. \A i \in DOMAIN sent : sent[i] < next + 1
      BY <1>1, <1>2, <2>1
    <3> QED
      BY <2>1, <2>2, <3>1
  <2>3. CASE sent' = Append(sent, next)
    <3>1. /\ DOMAIN sent = 1..Len(sent) /\ DOMAIN sent' = 1..(Len(sent) + 1)
          /\ \A i \in 1..Len(sent) : sent'[i] = sent[i]
          /\ sent'[Len(sent) + 1] = next /\ Len(sent) \in Nat
      BY <1>2, <1>3, <2>3, AppendRange
    <3>2. \A i \in 1..(Len(sent) + 1) : i \in 1..Len(sent) \/ i = Len(sent) + 1
      BY <3>1
    <3>3. \A i \in DOMAIN sent' : sent'[i] < next + 1
      BY <1>2, <2>1, <3>1, <3>2
    <3>4. ASSUME NEW i \in DOMAIN sent', NEW j \in DOMAIN sent', i < j
          PROVE  sent'[i] < sent'[j]
      <4>1. i \in 1..Len(sent)
        BY <3>1, <3>4
      <4>2. CASE j \in 1..Len(sent)
        BY <2>1, <3>1, <3>4, <4>1, <4>2
      <4>3. CASE j = Len(sent) + 1
        BY <2>1, <3>1, <4>1, <4>3
      <4> QED
        BY <3>1, <3>2, <4>2, <4>3
    <3> QED
      BY <3>3, <3>4
  <2> QED
    BY <2>2, <2>3
<1>8. \A n \in undealt' : n < next'
  <2>1. \A n \in undealt : n \in 1..Top /\ n < next
    BY <1>1 DEF IInv, Accounted, TypeOK
  <2>2. \A n \in undealt \cup {next} : n < next + 1
    BY <1>2, <2>1
  <2> QED
    BY <2>2
<1>9. Accounted
    BY DEF IInv
<1>10. Pending' \cap missed' = {} /\ (Sent' \cup undealt') \cap missed' = {}
    BY <1>4, <1>5, <1>9 DEF Accounted
<1>11. 1..Top' = Sent' \cup undealt' \cup Pending' \cup missed'
    BY <1>1, <1>4, <1>5, <1>9 DEF Accounted
<1>12. Accounted'
    BY <1>7, <1>8, <1>10, <1>11 DEF Accounted
<1>13. TwiceRemoved'
    BY <1>1 DEF IInv, TwiceRemoved
<1> QED
    BY <1>6, <1>12, <1>13 DEF IInv

LEMMA DealLogKeeps == IInv /\ (DealLog \/ DealReports) => IInv'
<1> SUFFICES ASSUME IInv, DealLog \/ DealReports PROVE IInv'
    OBVIOUS
<1>1. Types /\ Top \in Nat
    BY DEF IInv, Types, Top
<1>2. CASE DealLog
  <2>1. next \in 1..Top
    BY <1>1, <1>2 DEF DealLog, Types, TypeOK
  <2>2. channel' \in Seq(1..Top) /\ Len(channel') = Len(channel) + 1 /\ Len(channel) \in Nat
    BY <1>1, <1>2, <2>1, AppendRange DEF DealLog, Types, TypeOK
  <2>3. Len(channel') <= Capacity
    BY <1>2, <2>2, ListenAssumption DEF DealLog
  <2>4. faults' \in 0..MaxFaults
    BY <1>1, <1>2 DEF DealLog, Types, TypeOK
  <2> QED
    BY <1>2, <2>2, <2>3, <2>4, DealKeeps DEF DealLog
<1>3. CASE DealReports
  <2>1. faults' \in 0..MaxFaults
    BY <1>1, <1>3, ListenAssumption DEF DealReports, Fault, Types, TypeOK
  <2>2. channel' \in Seq(1..Top) /\ Len(channel') <= Capacity
    BY <1>1, <1>3 DEF DealReports, Types, TypeOK
  <2> QED
    BY <1>3, <2>1, <2>2, DealKeeps DEF DealReports
<1> QED
    BY <1>2, <1>3

\* The subscription ends, and takes along what waited in it.
LEMMA LeaveKeeps ==
    ASSUME IInv, pc' \in {"dial", "down"}, ~live', missed' = missed \cup Pending,
           live' \in BOOLEAN,
           UNCHANGED <<world, next, end, faults, dealt, sent, undealt>>,
           channel' \in Seq(1..Top) /\ Len(channel') <= Capacity,
           crashes' \in 0..MaxCrashes
    PROVE  IInv'
<1>1. TypeOK /\ Accounted /\ Top \in Nat /\ Top' = Top /\ UNCHANGED <<chain, stream>>
    BY DEF IInv, Types, Top, world
<1>2. Pending' = {} /\ Sent' = Sent
    BY DEF Pending, Sent
<1>3. Pending \subseteq 1..Top
    BY <1>1 DEF Pending, TypeOK
<1>4. Types'
    BY <1>1, <1>3 DEF IInv, Types, TypeOK
<1>5. (Sent \cup undealt) \cap Pending = {}
  <2>1. \A n \in Sent \cup undealt : n < next /\ n \in 1..Top
    BY <1>1 DEF Accounted, Sent, TypeOK
  <2>2. \A n \in Pending : n \in 1..Top /\ n >= next
    BY <1>1, <1>3 DEF Pending, TypeOK
  <2> QED
    BY <1>1, <2>1, <2>2 DEF TypeOK
<1>6. Pending' \cap missed' = {} /\ (Sent' \cup undealt') \cap missed' = {}
    BY <1>1, <1>2, <1>5 DEF Accounted
<1>7. 1..Top' = Sent' \cup undealt' \cup Pending' \cup missed'
    BY <1>1, <1>2 DEF Accounted
<1>8. Accounted'
    BY <1>1, <1>6, <1>7 DEF Accounted
<1>9. TwiceRemoved'
    BY <1>1 DEF IInv, TwiceRemoved
<1> QED
    BY <1>4, <1>8, <1>9 DEF IInv

LEMMA SubErrorKeeps == IInv /\ SubError => IInv'
<1> SUFFICES ASSUME IInv, SubError PROVE IInv'
    OBVIOUS
<1>1. TypeOK
    BY DEF IInv, Types
<1> QED
    BY <1>1, LeaveKeeps DEF SubError, TypeOK, subscription

LEMMA CrashKeeps == IInv /\ Crash => IInv'
<1> SUFFICES ASSUME IInv, Crash PROVE IInv'
    OBVIOUS
<1>1. TypeOK
    BY DEF IInv, Types
<1>2. channel' \in Seq(1..Top) /\ Len(channel') <= Capacity
    BY ListenAssumption DEF Crash
<1>3. crashes' \in 0..MaxCrashes
    BY <1>1, ListenAssumption DEF Crash, TypeOK
<1> QED
    BY <1>1, <1>2, <1>3, LeaveKeeps DEF Crash

\* The cursor of a new subscription is behind all that was announced.
LEMMA SubscribeKeeps == IInv /\ Subscribe => IInv'
<1> SUFFICES ASSUME IInv, Subscribe PROVE IInv'
    OBVIOUS
<1>1. TypeOK /\ Accounted /\ Top \in Nat /\ Top' = Top
      /\ UNCHANGED <<chain, stream, channel, faults, crashes, sent, undealt, missed>>
    BY DEF IInv, Types, Top, world, Subscribe
<1>2. pc = "subscribe" /\ pc' = "select" /\ live' = TRUE /\ end' = Top /\ next' = Top + 1
      /\ dealt' = {}
    BY DEF Subscribe
<1>3. Types'
    BY <1>1, <1>2 DEF IInv, Types, TypeOK
<1>4. Pending = {} /\ Pending' = {} /\ Sent' = Sent
    BY <1>1, <1>2 DEF Pending, Sent
<1>5. \A i \in DOMAIN sent : sent[i] \in 1..Top
    BY <1>1 DEF TypeOK
<1>6. \A n \in undealt : n \in 1..Top
    BY <1>1 DEF TypeOK
<1>7. Accounted'
    BY <1>1, <1>2, <1>4, <1>5, <1>6 DEF Accounted
<1>8. TwiceRemoved'
    BY <1>1 DEF IInv, TwiceRemoved
<1> QED
    BY <1>3, <1>7, <1>8 DEF IInv

\* The other steps move neither the cursor nor anything that was announced.
LEMMA OthersKeep ==
    IInv /\ (Break \/ DialOk \/ SubscribeError \/ TakeLog \/ Consume \/ Restart \/ UNCHANGED vars)
        => IInv'
<1> SUFFICES ASSUME IInv, \/ Break \/ DialOk \/ SubscribeError \/ TakeLog \/ Consume \/ Restart
                          \/ UNCHANGED vars
             PROVE  IInv'
    OBVIOUS
<1> USE DEF Break, DialOk, SubscribeError, TakeLog, Consume, Restart, vars, world, subscription,
            history
<1>1. TypeOK /\ Accounted /\ Top' = Top
      /\ UNCHANGED <<chain, stream, next, end, dealt, sent, undealt, missed, crashes>>
    BY DEF IInv, Types, Top
<1>2. \/ pc' = pc
      \/ pc \notin {"select", "deal"} /\ pc' \in {"dial", "subscribe"}
      \/ pc = "select" /\ pc' = "deal" /\ next <= end
    OBVIOUS
<1>3. live' \in BOOLEAN /\ (live' => live)
  <2>1. live \in BOOLEAN
    BY <1>1 DEF TypeOK
  <2>2. live' = live \/ live' = FALSE
    OBVIOUS
  <2>3. CASE live' = live
    BY <2>1, <2>3
  <2>4. CASE live' = FALSE
    BY <2>4
  <2> QED
    BY <2>2, <2>3, <2>4
<1>4. faults' \in 0..MaxFaults
    BY <1>1, ListenAssumption DEF TypeOK, Fault
<1>5. channel' = channel \/ (channel # <<>> /\ channel' = Tail(channel))
    OBVIOUS
<1>6. channel' \in Seq(1..Top) /\ Len(channel') <= Capacity
  <2>1. channel \in Seq(1..Top) /\ Len(channel) <= Capacity
    BY <1>1 DEF TypeOK
  <2>2. CASE channel' = channel
    BY <2>1, <2>2
  <2>3. CASE channel # <<>> /\ channel' = Tail(channel)
    <3>1. Len(Tail(channel)) \in Nat /\ Len(Tail(channel)) <= Len(channel) /\ Len(channel) \in Nat
          /\ Tail(channel) \in Seq(1..Top)
      BY <2>1, <2>3, TailSeq
    <3> QED
      BY <2>1, <2>3, <3>1, ListenAssumption
  <2> QED
    BY <1>5, <2>2, <2>3
<1>7. live' => pc' \in {"select", "deal"}
    BY <1>1, <1>2, <1>3 DEF TypeOK
<1>8. Types'
    BY <1>1, <1>2, <1>3, <1>4, <1>6, <1>7 DEF IInv, Types, TypeOK
<1>9. Pending' = Pending /\ Sent' = Sent
    BY <1>1, <1>2 DEF Pending, Sent
<1>10. Accounted'
    BY <1>1, <1>9 DEF Accounted
<1>11. TwiceRemoved'
    BY <1>1 DEF IInv, TwiceRemoved
<1> QED
    BY <1>8, <1>10, <1>11 DEF IInv

LEMMA StepInv == IInv /\ [Next]_vars => IInv'
    BY NewLogKeeps, ReorgKeeps, DealLogKeeps, SubErrorKeeps, CrashKeeps, SubscribeKeeps,
       OthersKeep DEF Next

LEMMA Invariance == Spec => []IInv
    BY InitInv, StepInv, PTL DEF Spec
-----------------------------------------------------------------------------
\* The type invariant of the subscribing reader.
THEOREM TypeCorrect == Spec => []TypeOK
<1>1. IInv => TypeOK
    BY DEF IInv, Types
<1> QED
    BY <1>1, Invariance, PTL

\* Whatever subscriptions are lost, no notification is sent on twice or overtaken,
\* and each one is accounted for: listenPoolsV2, listenPoolsV3, listenNft,
\* listenFactory.
THEOREM Notified == Spec => []HandedOver
<1>1. IInv => HandedOver
  <2> SUFFICES ASSUME IInv PROVE HandedOver
    OBVIOUS
  <2>1. TypeOK /\ Accounted /\ TwiceRemoved /\ Top \in Nat
    BY DEF IInv, Types, Top
  <2>2. \A i \in DOMAIN sent : sent[i] \in 1..Top
    BY <2>1 DEF TypeOK
  <2>3. (Sent \cup undealt) \cap Pending = {}
    <3>1. \A n \in Sent \cup undealt : n < next /\ n \in 1..Top
      BY <2>1 DEF Accounted, Sent, TypeOK
    <3>2. \A n \in Pending : n >= next
      BY <2>1 DEF Pending, TypeOK
    <3> QED
      BY <2>1, <3>1, <3>2 DEF TypeOK
  <2>4. \A i, j \in DOMAIN sent :
          i < j /\ stream[sent[i]].log = stream[sent[j]].log => stream[sent[j]].removed
    BY <2>1, <2>2 DEF Accounted, TwiceRemoved
  <2> QED
    BY <2>1, <2>3, <2>4 DEF Accounted, HandedOver
<1> QED
    BY <1>1, Invariance, PTL

\* The first state has no subscription.
LEMMA InitFeed == Init => Feed!Init
    BY DEF Init, Feed!Init, Top

\* A step within a subscription delivers the next notification; the others begin or
\* end it.
LEMMA NextFeed == IInv /\ IInv' /\ [Next]_vars => [Feed!Next]_(Feed!feedVars)
<1> SUFFICES ASSUME IInv, IInv', [Next]_vars
             PROVE  Feed!Next \/ UNCHANGED Feed!feedVars
    OBVIOUS
<1> USE DEF Feed!feedVars
<1>1. Top \in Nat /\ Top' \in Nat /\ next \in Nat /\ next' \in Nat /\ end <= Top /\ end \in Nat
  <2>1. Top \in Nat /\ Top' \in Nat
      BY DEF IInv, Types, Top
  <2>2. next \in 1..(Top + 1) /\ end \in 0..Top /\ (next \in 1..(Top + 1))'
      BY DEF IInv, Types, TypeOK
  <2> QED
      BY <2>1, <2>2
<1>2. ASSUME NewLog \/ Reorg PROVE Feed!Grow
  <2>1. PICK n \in Notes : Notify(n)
    <3>1. CASE NewLog
      <4>1. [log |-> Top + 1, removed |-> FALSE] \in Notes
        BY <1>1 DEF Notes
      <4> QED
        BY <3>1, <4>1 DEF NewLog
    <3>2. CASE Reorg
      <4>1. chain[Len(chain)] \in 1..Top
        BY <3>2, FrontSeq DEF Reorg, IInv, Types, TypeOK
      <4>2. [log |-> chain[Len(chain)], removed |-> TRUE] \in Notes
        BY <1>1, <4>1 DEF Notes
      <4> QED
        BY <3>2, <4>2 DEF Reorg
    <3> QED
      BY <1>2, <3>1, <3>2
  <2>2. Top' = Top + 1 /\ UNCHANGED <<pc, next, dealt>>
    BY <2>1, AppendRange DEF Notify, IInv, Types, Top
  <2> QED
    BY <1>1, <2>2 DEF Feed!Grow
<1>3. ASSUME Subscribe PROVE Feed!Begin
    BY <1>1, <1>3 DEF Subscribe, Feed!Begin, world, Top
<1>4. ASSUME DealLog \/ DealReports PROVE Feed!Deliver
  <2>1. next <= Top
    BY <1>1, <1>4 DEF DealLog, DealReports, IInv, Types, TypeOK
  <2> QED
    BY <1>4, <2>1 DEF DealLog, DealReports, Feed!Deliver, world, Top
<1>5. ASSUME SubError PROVE Feed!Stop
    BY <1>1, <1>5 DEF SubError, Feed!Stop, world, subscription, Top
<1>6. ASSUME Crash PROVE Feed!Stop \/ UNCHANGED Feed!feedVars
    BY <1>1, <1>6 DEF Crash, Feed!Stop, world, Top
<1>7. ASSUME \/ Break \/ DialOk \/ SubscribeError \/ TakeLog \/ Consume \/ Restart
             \/ UNCHANGED vars
      PROVE  UNCHANGED Feed!feedVars
    BY <1>7 DEF Break, DialOk, SubscribeError, TakeLog, Consume, Restart, vars, world,
                subscription, history, Top
<1> QED
    BY <1>2, <1>3, <1>4, <1>5, <1>6, <1>7 DEF Next, Feed!Next

\* A subscription is a feed: notifications are handed over one by one, in order, from
\* where the subscription began, and none before it exists.
THEOREM SubscriptionIsFeed == Spec => FeedSpec
<1>1. Init => Feed!Init
    BY InitFeed
<1> QED
    BY <1>1, NextFeed, Invariance, PTL DEF Spec, FeedSpec, Feed!Spec
=============================================================================
