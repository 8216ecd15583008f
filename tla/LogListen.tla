----------------------------- MODULE LogListen -----------------------------
(***************************************************************************)
(* The subscribing chain reader of service/evm.go, which listen_type 0     *)
(* selects: listenPoolsV2, listenPoolsV3, listenNft and listenFactory.     *)
(* The four goroutines run the same loop: dial, subscribe, hand the logs   *)
(* over, and after any failure begin again five seconds later.             *)
(*                                                                         *)
(* The chain announces every log it gets and, when a reorganisation takes  *)
(* it back, announces the same log again as removed.  A notification is    *)
(* its position in that stream.  The node and the library behind the       *)
(* subscription are external: the library keeps the notifications the      *)
(* reader has not taken yet and throws them away when the subscription     *)
(* ends.                                                                   *)
(***************************************************************************)
EXTENDS Integers, Sequences, FiniteSets

CONSTANTS
    Capacity,    \* chPoolStat, chNft, chPool: 10
    SubBuffer,   \* notifications the library keeps for a subscription: 20000
    MaxLogs,     \* bound: logs the chain gets
    MaxReorgs,   \* bound: logs the chain loses
    MaxFaults,   \* bound: failed subscriptions, lost ones and undealt logs
    MaxCrashes   \* bound: number of times the process dies

ASSUME ListenAssumption ==
    /\ Capacity \in Nat \ {0} /\ SubBuffer \in Nat \ {0}
    /\ MaxLogs \in Nat /\ MaxReorgs \in Nat /\ MaxFaults \in Nat /\ MaxCrashes \in Nat

VARIABLES
    chain,      \* the logs of the chain
    stream,     \* all notifications: the log and whether it is removed
    pc,         \* where the goroutine is; "down" when the process is dead
    live,       \* the node pushes to the subscription
    next,       \* the first notification of the subscription not taken
    end,        \* the last notification pushed to the subscription
    channel,    \* the data channel
    faults, crashes,
    \* history variables
    dealt,      \* notifications handed over by this subscription
    sent,       \* notifications put on the channel, in order
    undealt,    \* notifications that were given up with a report
    missed      \* notifications the node made while it had nobody to push them to, or
                \* that were pending when the subscription ended

world == <<chain, stream>>
subscription == <<live, next, end>>
history == <<dealt, sent, undealt, missed>>
vars == <<world, pc, subscription, channel, faults, crashes, history>>

Top == Len(stream)
Pending == IF pc \in {"select", "deal"} THEN next..end ELSE {}
Fault == faults < MaxFaults /\ faults' = faults + 1

\* (A name that extends the name of the definition below it is that definition
\* with a plausible bug; the specification never uses it.)

Init ==
    /\ chain = <<>> /\ stream = <<>>
    /\ pc = "dial" /\ live = FALSE /\ next = 1 /\ end = 0
    /\ channel = <<>> /\ faults = 0 /\ crashes = 0
    /\ dealt = {} /\ sent = <<>> /\ undealt = {} /\ missed = {}
-----------------------------------------------------------------------------
(* The chain and the node *)

\* A notification goes to the subscription.  When the library's buffer is full it
\* ends the subscription instead.
Notify(n) ==
    /\ stream' = Append(stream, n)
    /\ IF live /\ Cardinality(Pending) < SubBuffer
       THEN end' = Top + 1 /\ UNCHANGED <<live, missed>>
       ELSE live' = FALSE /\ missed' = missed \cup {Top + 1} /\ UNCHANGED end
    /\ UNCHANGED <<pc, next, channel, faults, crashes, dealt, sent, undealt>>

NewLog ==
    /\ Cardinality({i \in DOMAIN stream : ~stream[i].removed}) < MaxLogs
    /\ chain' = Append(chain, Top + 1)
    /\ Notify([log |-> Top + 1, removed |-> FALSE])

\* A reorganisation takes the last log of the chain back.
Reorg ==
    /\ chain # <<>>
    /\ Cardinality({i \in DOMAIN stream : stream[i].removed}) < MaxReorgs
    /\ chain' = SubSeq(chain, 1, Len(chain) - 1)
    /\ Notify([log |-> chain[Len(chain)], removed |-> TRUE])

\* The connection breaks: nothing more is pushed.
Break ==
    /\ live /\ Fault
    /\ live' = FALSE
    /\ UNCHANGED <<world, pc, next, end, channel, crashes, history>>
-----------------------------------------------------------------------------
(* The goroutine *)

\* A dial that fails is repeated five seconds later and changes nothing.
DialOk ==
    /\ pc = "dial"
    /\ pc' = "subscribe"
    /\ UNCHANGED <<world, subscription, channel, faults, crashes, history>>

\* SubscribeFilterLogs with a channel of its own: the node pushes what comes from now.
SubscribeAgain ==
    /\ pc = "subscribe"
    /\ pc' = "select"
    /\ live' = TRUE /\ end' = Top /\ next' = next
    /\ dealt' = {}
    /\ UNCHANGED <<world, channel, faults, crashes, sent, undealt, missed>>
Subscribe ==
    /\ pc = "subscribe"
    /\ pc' = "select"
    /\ live' = TRUE /\ end' = Top /\ next' = Top + 1
    /\ dealt' = {}
    /\ UNCHANGED <<world, channel, faults, crashes, sent, undealt, missed>>

\* It fails, and five seconds later the goroutine dials another client.
SubscribeError ==
    /\ pc = "subscribe" /\ Fault
    /\ pc' = "dial"
    /\ UNCHANGED <<world, subscription, channel, crashes, history>>

\* case vLog := <-eventLogChan.  Removed is not looked at.
TakeLog ==
    /\ pc = "select" /\ next <= end
    /\ pc' = "deal"
    /\ UNCHANGED <<world, subscription, channel, faults, crashes, history>>

\* dealPoolV2Log, dealPoolV3Log, dealNFTLog or dealFactoryLog sends what it made of
\* the log, and waits while the channel is full.
DealLogUnblocked ==
    /\ pc = "deal"
    /\ channel' = Append(channel, next)
    /\ sent' = Append(sent, next) /\ dealt' = dealt \cup {next}
    /\ pc' = "select" /\ next' = next + 1
    /\ UNCHANGED <<world, live, end, faults, crashes, undealt, missed>>
DealLog ==
    /\ pc = "deal" /\ Len(channel) < Capacity
    /\ channel' = Append(channel, next)
    /\ sent' = Append(sent, next) /\ dealt' = dealt \cup {next}
    /\ pc' = "select" /\ next' = next + 1
    /\ UNCHANGED <<world, live, end, faults, crashes, undealt, missed>>

\* Or only reports: short data of a swap, a position that cannot be read.
DealReportsRetry ==
    /\ pc = "deal" /\ Fault
    /\ undealt' = undealt \cup {next} /\ dealt' = dealt \cup {next}
    /\ pc' = "select" /\ next' = next
    /\ UNCHANGED <<world, live, end, channel, crashes, sent, missed>>
DealReports ==
    /\ pc = "deal" /\ Fault
    /\ undealt' = undealt \cup {next} /\ dealt' = dealt \cup {next}
    /\ pc' = "select" /\ next' = next + 1
    /\ UNCHANGED <<world, live, end, channel, crashes, sent, missed>>

\* case err := <-sub.Err(): Unsubscribe, and begin again.  What the library kept for
\* the subscription is gone.
SubErrorStays ==
    /\ pc = "select" /\ ~live
    /\ missed' = missed \cup Pending
    /\ pc' = "select" /\ next' = end + 1
    /\ UNCHANGED <<world, live, end, channel, faults, crashes, dealt, sent, undealt>>
SubError ==
    /\ pc = "select" /\ ~live
    /\ missed' = missed \cup Pending
    /\ pc' = "dial"
    /\ UNCHANGED <<world, subscription, channel, faults, crashes, dealt, sent, undealt>>

\* The consumer takes from the channel.
Consume ==
    /\ channel # <<>>
    /\ channel' = Tail(channel)
    /\ UNCHANGED <<world, pc, subscription, faults, crashes, history>>

Crash ==
    /\ pc # "down" /\ crashes < MaxCrashes
    /\ crashes' = crashes + 1
    /\ pc' = "down" /\ live' = FALSE /\ channel' = <<>>
    /\ missed' = missed \cup Pending
    /\ UNCHANGED <<world, next, end, faults, dealt, sent, undealt>>

Restart ==
    /\ pc = "down"
    /\ pc' = "dial"
    /\ UNCHANGED <<world, subscription, channel, faults, crashes, history>>

Next ==
    \/ NewLog \/ Reorg \/ Break
    \/ DialOk \/ Subscribe \/ SubscribeError
    \/ TakeLog \/ DealLog \/ DealReports \/ SubError \/ Consume \/ Crash \/ Restart

Spec == Init /\ [][Next]_vars

\* The goroutines are scheduled, the select does not starve the error, and a node that
\* keeps being asked is reached and subscribed to in the end.
Fairness ==
    /\ SF_vars(DialOk) /\ SF_vars(Subscribe)
    /\ WF_vars(TakeLog) /\ SF_vars(DealLog) /\ SF_vars(SubError) /\ WF_vars(Consume)

FairSpec == Spec /\ Fairness
-----------------------------------------------------------------------------
(* Properties *)

TypeOK ==
    /\ chain \in Seq(1..Top) /\ \A i \in DOMAIN stream : stream[i].log \in 1..i
    /\ pc \in {"down", "dial", "subscribe", "select", "deal"}
    /\ live \in BOOLEAN
    /\ live => pc \in {"select", "deal"} /\ end = Top
    /\ next \in 1..(Top + 1) /\ end \in 0..Top /\ next <= end + 1
    /\ pc = "deal" => next <= end
    /\ channel \in Seq(1..Top) /\ Len(channel) <= Capacity
    /\ faults \in 0..MaxFaults /\ crashes \in 0..MaxCrashes
    /\ dealt \subseteq 1..Top /\ undealt \subseteq 1..Top /\ missed \subseteq 1..Top
    /\ sent \in Seq(1..Top)

\* Over any number of subscriptions no notification is sent on twice and none
\* overtakes another; each one is sent, reported, waiting in the subscription, or was
\* made while there was none or thrown away with it; a log comes a second time only
\* because the chain took it back, which nobody looks at (the loops of listenPoolsV2,
\* listenPoolsV3, listenNft and listenFactory).
Sent == {sent[i] : i \in DOMAIN sent}
HandedOver ==
    /\ \A i, j \in DOMAIN sent : i < j => sent[i] < sent[j]
    /\ 1..Top = Sent \cup undealt \cup Pending \cup missed
    /\ (Sent \cup undealt) \cap (Pending \cup missed) = {}
    /\ \A i, j \in DOMAIN sent :
        i < j /\ stream[sent[i]].log = stream[sent[j]].log => stream[sent[j]].removed

\* Within a subscription the reader is one LogFeed allows: the notifications come one
\* after the other from where the subscription began.
Feed == INSTANCE LogFeed WITH head <- Top, running <- pc \in {"select", "deal"}
FeedSpec == Feed!Spec

\* What was pushed to a subscription reaches the channel, unless it is reported or the
\* subscription ends first; and the goroutine always comes back to a subscription, unless
\* the process is dead, which nothing but somebody's restart changes.
EveryPushDealt ==
    /\ \A n \in 1..(MaxLogs + MaxReorgs) : (n \in Pending) ~> (n \notin Pending)
    /\ []<>(live \/ pc = "down")
=============================================================================
