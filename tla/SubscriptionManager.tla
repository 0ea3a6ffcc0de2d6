------------------------ MODULE SubscriptionManager ------------------------
(***************************************************************************)
(* RedisSubscriptionManager (apps/api/src/realtime/sse/                    *)
(* redisSubscriptionManager.ts): it counts the demand of SSE connections   *)
(* for each demand key and keeps one Redis SUBSCRIBE per demanded key.     *)
(*                                                                         *)
(* Operations on one key are chained by runSerialized, so a key has at     *)
(* most one operation that has started and not finished.  An operation     *)
(* runs without interruption up to the await of its SUBSCRIBE or           *)
(* UNSUBSCRIBE, and its tail runs when the reply (or rejection) arrives.   *)
(* The 'close' and 'ready' handlers of the subscriber connection run       *)
(* between those steps, whatever is in flight.                             *)
(*                                                                         *)
(* The ioredis client is external.  As the manager uses it (createRedis-   *)
(* Connection sets maxRetriesPerRequest to null and leaves the other       *)
(* options alone) a command that finds the connection down waits for the   *)
(* next 'ready', an unanswered one is sent again then, and the channels    *)
(* the client knows itself subscribed to are subscribed again before the   *)
(* 'ready' event is emitted.                                               *)
(***************************************************************************)
EXTENDS Naturals, Sequences, FiniteSets

CONSTANTS
    Keys,         \* demand keys, "<eventType>:<routingKey>"
    MaxHolders,   \* bound: connections that hold one key at the same time
    MaxOps,       \* bound: operations queued on one key
    MaxCloses,    \* bound: losses of the subscriber connection
    MaxRejects    \* bound: commands that Redis answers with an error

ASSUME BoundsAssumption ==
    /\ MaxHolders \in Nat
    /\ MaxOps \in Nat
    /\ MaxCloses \in Nat
    /\ MaxRejects \in Nat

VARIABLES
    demand,       \* demandCount: 0 stands for a missing entry
    subState,     \* subscriptionStateByDemandKey: "idle" also stands for a missing entry
    ops,          \* subscriptionOpByDemandKey: operations chained and not started
    awaiting,     \* the command the running operation awaits, "none" when none runs
    connected,    \* the subscriber connection is ready
    clientSub,    \* the channel is in the client's own subscription set
    serverSub,    \* Redis delivers the channel on the current connection
    holders,      \* connections of the broker that asked for the key and did not drop it
    rejected,     \* history: SUBSCRIBE was rejected, no demand or 'ready' since
    closes,       \* history: losses of the connection so far
    rejects       \* history: rejected commands so far

managerVars == <<demand, subState, ops, awaiting>>
redisVars   == <<connected, clientSub, serverSub>>
historyVars == <<rejected, closes, rejects>>
vars == <<managerVars, redisVars, holders, historyVars>>

SubStates == {"idle", "subscribing", "subscribed", "unsubscribing"}
Operations == {"increment", "decrement", "reconcile"}
Commands == {"none", "subscribe", "unsubscribe"}

TypeOK ==
    /\ demand \in [Keys -> Nat]
    /\ subState \in [Keys -> SubStates]
    /\ ops \in [Keys -> Seq(Operations)]
    /\ awaiting \in [Keys -> Commands]
    /\ connected \in BOOLEAN
    /\ clientSub \in [Keys -> BOOLEAN]
    /\ serverSub \in [Keys -> BOOLEAN]
    /\ holders \in [Keys -> Nat]
    /\ rejected \in [Keys -> BOOLEAN]
    /\ closes \in Nat
    /\ rejects \in Nat

\* The manager is constructed and started before the first 'ready'.
Init ==
    /\ demand = [k \in Keys |-> 0]
    /\ subState = [k \in Keys |-> "idle"]
    /\ ops = [k \in Keys |-> <<>>]
    /\ awaiting = [k \in Keys |-> "none"]
    /\ connected = FALSE
    /\ clientSub = [k \in Keys |-> FALSE]
    /\ serverSub = [k \in Keys |-> FALSE]
    /\ holders = [k \in Keys |-> 0]
    /\ rejected = [k \in Keys |-> FALSE]
    /\ closes = 0
    /\ rejects = 0

-----------------------------------------------------------------------------
(* The broker's calls: they only chain an operation.                       *)

\* incrementDemand, called when a connection registers.
Acquire(k) ==
    /\ holders[k] < MaxHolders
    /\ Len(ops[k]) < MaxOps
    /\ holders' = [holders EXCEPT ![k] = @ + 1]
    /\ ops' = [ops EXCEPT ![k] = Append(@, "increment")]
    /\ UNCHANGED <<demand, subState, awaiting, redisVars, historyVars>>

\* Mutant of Release: a cleanup that is not idempotent drops the demand twice.
ReleaseTwice(k) ==
    /\ Len(ops[k]) < MaxOps
    /\ holders' = [holders EXCEPT ![k] = @ - 1]
    /\ ops' = [ops EXCEPT ![k] = Append(@, "decrement")]
    /\ UNCHANGED <<demand, subState, awaiting, redisVars, historyVars>>

\* decrementDemand, called when a connection is cleaned up; its own
\* increment may still be queued or in flight.
Release(k) ==
    /\ holders[k] > 0
    /\ Len(ops[k]) < MaxOps
    /\ holders' = [holders EXCEPT ![k] = @ - 1]
    /\ ops' = [ops EXCEPT ![k] = Append(@, "decrement")]
    /\ UNCHANGED <<demand, subState, awaiting, redisVars, historyVars>>

-----------------------------------------------------------------------------
(* The head of the chain of key k runs up to its first await.              *)

NextOperation(k, op) ==
    /\ awaiting[k] = "none"
    /\ ops[k] # <<>>
    /\ Head(ops[k]) = op
    /\ ops' = [ops EXCEPT ![k] = Tail(@)]

\* subscribeIfNeeded up to the await; d is the demand it reads.
SubscribeIfNeeded(k, d) ==
    IF d > 0 /\ subState[k] \notin {"subscribed", "subscribing"}
    THEN /\ subState' = [subState EXCEPT ![k] = "subscribing"]
         /\ awaiting' = [awaiting EXCEPT ![k] = "subscribe"]
    ELSE UNCHANGED <<subState, awaiting>>

\* unsubscribeIfNeeded up to the await; d is the demand it reads.
UnsubscribeIfNeeded(k, d) ==
    IF d = 0 /\ subState[k] \notin {"idle", "unsubscribing"}
    THEN /\ subState' = [subState EXCEPT ![k] = "unsubscribing"]
         /\ awaiting' = [awaiting EXCEPT ![k] = "unsubscribe"]
    ELSE UNCHANGED <<subState, awaiting>>

\* Mutant of RunIncrement: only the first demand subscribes.
RunIncrementFirstOnly(k) ==
    /\ NextOperation(k, "increment")
    /\ demand' = [demand EXCEPT ![k] = @ + 1]
    /\ IF demand[k] = 0
       THEN SubscribeIfNeeded(k, 1)
       ELSE UNCHANGED <<subState, awaiting>>
    /\ rejected' = [rejected EXCEPT ![k] = FALSE]
    /\ UNCHANGED <<redisVars, holders, closes, rejects>>

RunIncrement(k) ==
    /\ NextOperation(k, "increment")
    /\ demand' = [demand EXCEPT ![k] = @ + 1]
    /\ SubscribeIfNeeded(k, demand[k] + 1)
    /\ rejected' = [rejected EXCEPT ![k] = FALSE]
    /\ UNCHANGED <<redisVars, holders, closes, rejects>>

\* Mutant of RunDecrement: the entry is deleted whatever demand is left.
RunDecrementDeletes(k) ==
    /\ NextOperation(k, "decrement")
    /\ demand' = [demand EXCEPT ![k] = 0]
    /\ UnsubscribeIfNeeded(k, 0)
    /\ UNCHANGED <<redisVars, holders, historyVars>>

\* Mutant of RunDecrement: the demand is compared before it is decremented.
RunDecrementOffByOne(k) ==
    /\ NextOperation(k, "decrement")
    /\ demand' = [demand EXCEPT ![k] = IF @ > 0 THEN @ - 1 ELSE @]
    /\ IF demand[k] = 0
       THEN UnsubscribeIfNeeded(k, 0)
       ELSE UNCHANGED <<subState, awaiting>>
    /\ UNCHANGED <<redisVars, holders, historyVars>>

RunDecrement(k) ==
    /\ NextOperation(k, "decrement")
    /\ demand' = [demand EXCEPT ![k] = IF @ > 0 THEN @ - 1 ELSE @]
    /\ IF demand[k] = 1
       THEN UnsubscribeIfNeeded(k, 0)
       ELSE UNCHANGED <<subState, awaiting>>
    /\ UNCHANGED <<redisVars, holders, historyVars>>

RunReconcile(k) ==
    /\ NextOperation(k, "reconcile")
    /\ SubscribeIfNeeded(k, demand[k])
    /\ UNCHANGED <<demand, redisVars, holders, historyVars>>

-----------------------------------------------------------------------------
(* The reply to the awaited command, and the rest of the operation.        *)

SubscribeReply(k) ==
    /\ awaiting[k] = "subscribe"
    /\ connected
    /\ clientSub' = [clientSub EXCEPT ![k] = TRUE]
    /\ serverSub' = [serverSub EXCEPT ![k] = TRUE]
    /\ subState' = [subState EXCEPT ![k] =
                      IF demand[k] > 0 THEN "subscribed" ELSE "unsubscribing"]
    /\ awaiting' = [awaiting EXCEPT ![k] =
                      IF demand[k] > 0 THEN "none" ELSE "unsubscribe"]
    /\ UNCHANGED <<demand, ops, connected, holders, historyVars>>

\* The catch of subscribeIfNeeded: back to idle, nothing is retried.
SubscribeRejected(k) ==
    /\ awaiting[k] = "subscribe"
    /\ connected
    /\ rejects < MaxRejects
    /\ subState' = [subState EXCEPT ![k] = "idle"]
    /\ awaiting' = [awaiting EXCEPT ![k] = "none"]
    /\ rejected' = [rejected EXCEPT ![k] = TRUE]
    /\ rejects' = rejects + 1
    /\ UNCHANGED <<demand, ops, redisVars, holders, closes>>

AfterUnsubscribe(k) ==
    /\ subState' = [subState EXCEPT ![k] =
                      IF demand[k] > 0 THEN "subscribed" ELSE "idle"]
    /\ awaiting' = [awaiting EXCEPT ![k] = "none"]

UnsubscribeReply(k) ==
    /\ awaiting[k] = "unsubscribe"
    /\ connected
    /\ clientSub' = [clientSub EXCEPT ![k] = FALSE]
    /\ serverSub' = [serverSub EXCEPT ![k] = FALSE]
    /\ AfterUnsubscribe(k)
    /\ UNCHANGED <<demand, ops, connected, holders, historyVars>>

UnsubscribeRejected(k) ==
    /\ awaiting[k] = "unsubscribe"
    /\ connected
    /\ rejects < MaxRejects
    /\ AfterUnsubscribe(k)
    /\ rejects' = rejects + 1
    /\ UNCHANGED <<demand, ops, redisVars, holders, rejected, closes>>

-----------------------------------------------------------------------------
(* The subscriber connection.                                              *)

\* Mutant of Close: onClose leaves the states alone.
CloseKeepsStates ==
    /\ connected
    /\ closes < MaxCloses
    /\ connected' = FALSE
    /\ serverSub' = [k \in Keys |-> FALSE]
    /\ closes' = closes + 1
    /\ UNCHANGED <<demand, subState, ops, awaiting, clientSub, holders, rejected, rejects>>

\* The connection is lost: Redis forgets its subscriptions, onClose runs.
Close ==
    /\ connected
    /\ closes < MaxCloses
    /\ connected' = FALSE
    /\ serverSub' = [k \in Keys |-> FALSE]
    /\ subState' = [k \in Keys |->
                      IF subState[k] \in {"subscribed", "subscribing"}
                      THEN "idle" ELSE subState[k]]
    /\ closes' = closes + 1
    /\ UNCHANGED <<demand, ops, awaiting, clientSub, holders, rejected, rejects>>

Demanded == {k \in Keys : demand[k] > 0}

\* Mutant of Ready: onReady resets the states and reconciles nothing.
ReadyWithoutReconcile ==
    /\ ~connected
    /\ connected' = TRUE
    /\ serverSub' = clientSub
    /\ subState' = [k \in Keys |-> IF k \in Demanded THEN "idle" ELSE subState[k]]
    /\ rejected' = [k \in Keys |-> IF k \in Demanded THEN FALSE ELSE rejected[k]]
    /\ UNCHANGED <<demand, ops, awaiting, clientSub, holders, closes, rejects>>

\* The connection is ready: the client subscribes again to its own set, then
\* onReady marks the demanded keys idle and chains a reconcile on each.
Ready ==
    /\ ~connected
    /\ connected' = TRUE
    /\ serverSub' = clientSub
    /\ subState' = [k \in Keys |-> IF k \in Demanded THEN "idle" ELSE subState[k]]
    /\ ops' = [k \in Keys |->
                 IF k \in Demanded THEN Append(ops[k], "reconcile") ELSE ops[k]]
    /\ rejected' = [k \in Keys |-> IF k \in Demanded THEN FALSE ELSE rejected[k]]
    /\ UNCHANGED <<demand, awaiting, clientSub, holders, closes, rejects>>

-----------------------------------------------------------------------------

RunOperation(k) == RunIncrement(k) \/ RunDecrement(k) \/ RunReconcile(k)
Answer(k) ==
    \/ SubscribeReply(k)
    \/ SubscribeRejected(k)
    \/ UnsubscribeReply(k)
    \/ UnsubscribeRejected(k)

Next ==
    \/ \E k \in Keys : Acquire(k) \/ Release(k) \/ RunOperation(k) \/ Answer(k)
    \/ Close
    \/ Ready

\* Promise continuations run, Redis answers a connected client, and the
\* client reconnects for ever.  Connections come and go as they like.
Fairness ==
    /\ \A k \in Keys : WF_vars(RunOperation(k)) /\ WF_vars(Answer(k))
    /\ WF_vars(Ready)

Spec == Init /\ [][Next]_vars
FairSpec == Spec /\ Fairness

-----------------------------------------------------------------------------
(* Properties.                                                             *)

Occurrences(s, e) == Cardinality({i \in DOMAIN s : s[i] = e})

\* No demand is lost or invented: the count of a key, corrected by the
\* operations still chained, is the number of connections that hold the key,
\* although increments and decrements of many connections interleave with
\* reconnects (incrementDemand, decrementDemand and their serialisation).
DemandCountsHolders ==
    \A k \in Keys :
        demand[k] + Occurrences(ops[k], "increment")
            = holders[k] + Occurrences(ops[k], "decrement")

\* The manager never believes in a subscription Redis does not have: a key in
\* state 'subscribed' is delivered on the current connection.
SubscribedIsReal ==
    \A k \in Keys : subState[k] = "subscribed" => connected /\ serverSub[k]

\* A connected manager with no work left on a demanded key has it
\* subscribed, whatever closes, reconnects and earlier operations raced,
\* unless Redis rejected the last SUBSCRIBE.
DemandedIsSubscribed ==
    \A k \in Keys :
        ( /\ connected
          /\ awaiting[k] = "none"
          /\ ops[k] = <<>>
          /\ demand[k] > 0
          /\ ~rejected[k] )
        => subState[k] = "subscribed" /\ serverSub[k]

\* A key nobody demands and on which nothing is pending.
Abandoned(k) ==
    /\ connected
    /\ awaiting[k] = "none"
    /\ ops[k] = <<>>
    /\ demand[k] = 0

\* While the connection has never been lost and no command rejected, the last
\* decrement of a key ends with the channel unsubscribed in Redis.
UnsubscribedOnLastDemand ==
    \A k \in Keys :
        Abandoned(k) /\ closes = 0 /\ rejects = 0 => ~serverSub[k]

\* The same without the exemption for lost connections, as the test
\* "subscribes only on first demand and unsubscribes on last demand" says of
\* the manager; refuted by a decrement that runs while disconnected.
NoLeakedSubscription ==
    \A k \in Keys : Abandoned(k) /\ rejects = 0 => ~serverSub[k]

\* A demanded key is eventually delivered by Redis, or the demand goes, or
\* Redis rejected the SUBSCRIBE and there has been no demand or 'ready' since.
DemandIsServed ==
    \A k \in Keys :
        demand[k] > 0 /\ ~rejected[k]
            ~> serverSub[k] \/ demand[k] = 0 \/ rejected[k]

=============================================================================
