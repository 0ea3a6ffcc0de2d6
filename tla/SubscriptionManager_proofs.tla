--------------------- MODULE SubscriptionManager_proofs ---------------------
(***************************************************************************)
(* Proofs about RedisSubscriptionManager for any set of keys and any       *)
(* bounds: type correctness, what a subscription state means, and that the *)
(* demand counts the connections that hold a key.                          *)
(***************************************************************************)
EXTENDS SubscriptionManager, FiniteSetTheorems, FunctionTheorems, TLAPS

\* The first state of a manager that has just been constructed is well typed.
LEMMA TypeInit == Init => TypeOK
<1> USE DEF TypeOK, SubStates, Operations, Commands
<1> SUFFICES ASSUME Init PROVE TypeOK
  OBVIOUS
<1> USE DEF Init
<1>1. demand \in [Keys -> Nat] /\ holders \in [Keys -> Nat] /\ closes \in Nat /\ rejects \in Nat
  OBVIOUS
<1>2. subState \in [Keys -> SubStates] /\ awaiting \in [Keys -> Commands]
  OBVIOUS
<1>3. ops \in [Keys -> Seq(Operations)]
  OBVIOUS
<1>4. /\ clientSub \in [Keys -> BOOLEAN]
      /\ serverSub \in [Keys -> BOOLEAN]
      /\ rejected \in [Keys -> BOOLEAN]
      /\ connected \in BOOLEAN
  OBVIOUS
<1> QED
  BY <1>1, <1>2, <1>3, <1>4

\* No call, operation, reply or connection event leaves the types.
LEMMA TypeStep == TypeOK /\ [Next]_vars => TypeOK'
<1> USE DEF TypeOK, SubStates, Operations, Commands
<1> SUFFICES ASSUME TypeOK, [Next]_vars PROVE TypeOK'
  OBVIOUS
<1> USE DEF managerVars, redisVars, historyVars
<1>1. ASSUME NEW k \in Keys, Acquire(k) PROVE TypeOK'
  BY <1>1 DEF Acquire
<1>2. ASSUME NEW k \in Keys, Release(k) PROVE TypeOK'
  BY <1>2 DEF Release
<1>3. ASSUME NEW k \in Keys, RunOperation(k) PROVE TypeOK'
  <2>1. ASSUME NEW op \in Operations, NextOperation(k, op)
        PROVE  ops' \in [Keys -> Seq(Operations)]
    <3>1. ops[k] \in Seq(Operations) /\ ops[k] # <<>>
      BY <2>1 DEF NextOperation
    <3>2. Tail(ops[k]) \in Seq(Operations)
      BY <3>1
    <3> QED
      BY <2>1, <3>2 DEF NextOperation
  <2>2. ASSUME NEW d \in Nat, SubscribeIfNeeded(k, d)
        PROVE  subState' \in [Keys -> SubStates] /\ awaiting' \in [Keys -> Commands]
    BY <2>2 DEF SubscribeIfNeeded
  <2>3. ASSUME NEW d \in Nat, UnsubscribeIfNeeded(k, d)
        PROVE  subState' \in [Keys -> SubStates] /\ awaiting' \in [Keys -> Commands]
    BY <2>3 DEF UnsubscribeIfNeeded
  <2>4. CASE RunIncrement(k)
    <3>1. demand' \in [Keys -> Nat] /\ rejected' \in [Keys -> BOOLEAN]
      BY <2>4 DEF RunIncrement
    <3>2. ops' \in [Keys -> Seq(Operations)]
      BY <2>4, <2>1 DEF RunIncrement
    <3>3. subState' \in [Keys -> SubStates] /\ awaiting' \in [Keys -> Commands]
      BY <2>4, <2>2 DEF RunIncrement
    <3> QED
      BY <2>4, <3>1, <3>2, <3>3 DEF RunIncrement
  <2>5. CASE RunDecrement(k)
    <3>1. demand' \in [Keys -> Nat]
      BY <2>5 DEF RunDecrement
    <3>2. ops' \in [Keys -> Seq(Operations)]
      BY <2>5, <2>1 DEF RunDecrement
    <3>3. subState' \in [Keys -> SubStates] /\ awaiting' \in [Keys -> Commands]
      BY <2>5, <2>3 DEF RunDecrement
    <3> QED
      BY <2>5, <3>1, <3>2, <3>3 DEF RunDecrement
  <2>6. CASE RunReconcile(k)
    <3>1. ops' \in [Keys -> Seq(Operations)]
      BY <2>6, <2>1 DEF RunReconcile
    <3>2. subState' \in [Keys -> SubStates] /\ awaiting' \in [Keys -> Commands]
      BY <2>6, <2>2 DEF RunReconcile
    <3> QED
      BY <2>6, <3>1, <3>2 DEF RunReconcile
  <2> QED
    BY <1>3, <2>4, <2>5, <2>6 DEF RunOperation
<1>4. ASSUME NEW k \in Keys, Answer(k) PROVE TypeOK'
  <2>1. CASE SubscribeReply(k)
    BY <2>1 DEF SubscribeReply
  <2>2. CASE SubscribeRejected(k)
    BY <2>2 DEF SubscribeRejected
  <2>3. CASE UnsubscribeReply(k)
    BY <2>3 DEF UnsubscribeReply, AfterUnsubscribe
  <2>4. CASE UnsubscribeRejected(k)
    BY <2>4 DEF UnsubscribeRejected, AfterUnsubscribe
  <2> QED
    BY <1>4, <2>1, <2>2, <2>3, <2>4 DEF Answer
<1>5. CASE Close
  <2>1. subState' \in [Keys -> SubStates]
    BY <1>5 DEF Close
  <2>2. serverSub' \in [Keys -> BOOLEAN]
    BY <1>5 DEF Close
  <2>3. connected' = FALSE /\ closes' = closes + 1
    BY <1>5 DEF Close
  <2>4. UNCHANGED <<demand, ops, awaiting, clientSub, holders, rejected, rejects>>
    BY <1>5 DEF Close
  <2>5. closes' \in Nat
    BY <2>3
  <2>6. connected' \in BOOLEAN
    BY <2>3
  <2> QED
    BY <2>1, <2>2, <2>4, <2>5, <2>6
<1>6. CASE Ready
  <2>1. subState' \in [Keys -> SubStates]
    BY <1>6 DEF Ready
  <2>2. ops' \in [Keys -> Seq(Operations)]
    <3>1. \A k \in Keys : Append(ops[k], "reconcile") \in Seq(Operations)
      OBVIOUS
    <3> QED
      BY <1>6, <3>1 DEF Ready
  <2>3. rejected' \in [Keys -> BOOLEAN]
    BY <1>6 DEF Ready
  <2> QED
    BY <1>6, <2>1, <2>2, <2>3 DEF Ready
<1>7. CASE UNCHANGED vars
  BY <1>7 DEF vars
<1> QED
  BY <1>1, <1>2, <1>3, <1>4, <1>5, <1>6, <1>7 DEF Next

\* Every handler of the manager leaves the types alone: TypeOK is inductive.
THEOREM TypeCorrect == Spec => []TypeOK
BY TypeInit, TypeStep, PTL DEF Spec

-----------------------------------------------------------------------------
(* What a subscription state means.  SubscribedIsReal and                  *)
(* DemandedIsSubscribed are not inductive: they rest on what the running   *)
(* operation of a key may find when its reply arrives, and on the          *)
(* reconcile that onReady leaves behind.                                   *)

Queued(s, op) == \E i \in 1..Len(s) : s[i] = op

\* An operation that awaits SUBSCRIBE still has the demand it was started for.
AwaitingSubscribe(k) ==
    awaiting[k] = "subscribe" => demand[k] > 0 /\ subState[k] \in {"subscribing", "idle"}

\* An operation that awaits UNSUBSCRIBE has not been overtaken by a demand.
AwaitingUnsubscribe(k) ==
    awaiting[k] = "unsubscribe" => demand[k] = 0 /\ subState[k] = "unsubscribing"

\* A key on which nothing is awaited is in no intermediate state.
AwaitingNothing(k) ==
    awaiting[k] = "none" => subState[k] \in {"idle", "subscribed"}

Real(k) == subState[k] = "subscribed" => connected /\ serverSub[k]

\* A demanded key that is idle on a ready connection will be reconciled.
WillReconcile(k) ==
    ( /\ connected
      /\ awaiting[k] = "none"
      /\ demand[k] > 0
      /\ ~rejected[k]
      /\ subState[k] = "idle" )
    => Queued(ops[k], "reconcile")

\* Without demand no key is in state 'subscribed'.
SubscribedIsDemanded(k) == subState[k] = "subscribed" => demand[k] > 0

\* Before any loss or rejection, client, Redis and manager agree on a key.
Undisturbed(k) ==
    closes = 0 /\ rejects = 0 /\ (serverSub[k] \/ clientSub[k])
        => connected /\ subState[k] \in {"subscribed", "unsubscribing"}

KeyInv(k) ==
    /\ AwaitingSubscribe(k)
    /\ AwaitingUnsubscribe(k)
    /\ AwaitingNothing(k)
    /\ Real(k)
    /\ WillReconcile(k)
    /\ SubscribedIsDemanded(k)
    /\ Undisturbed(k)

IInv == TypeOK /\ \A k \in Keys : KeyInv(k)

\* Chaining an operation keeps what is queued.
LEMMA QueuedAppend ==
    ASSUME NEW S, NEW s \in Seq(S), NEW op, NEW e \in S, Queued(s, op)
    PROVE  Queued(Append(s, e), op)
<1>1. PICK i \in 1..Len(s) : s[i] = op
  BY DEF Queued
<1>2. i \in 1..Len(Append(s, e)) /\ Append(s, e)[i] = op
  BY <1>1
<1> QED
  BY <1>2 DEF Queued

\* A chained operation is queued.
LEMMA QueuedLast ==
    ASSUME NEW S, NEW s \in Seq(S), NEW e \in S
    PROVE  Queued(Append(s, e), e)
<1>1. Len(s) + 1 \in 1..Len(Append(s, e)) /\ Append(s, e)[Len(s) + 1] = e
  OBVIOUS
<1> QED
  BY <1>1 DEF Queued

\* Starting an operation of another kind keeps a queued one.
LEMMA QueuedTail ==
    ASSUME NEW S, NEW s \in Seq(S), NEW op, s # <<>>, Head(s) # op, Queued(s, op)
    PROVE  Queued(Tail(s), op)
<1>1. PICK i \in 1..Len(s) : s[i] = op
  BY DEF Queued
<1>2. i # 1
  BY <1>1
<1>3. i - 1 \in 1..Len(Tail(s)) /\ Tail(s)[i - 1] = op
  BY <1>1, <1>2
<1> QED
  BY <1>3 DEF Queued

\* A step that leaves the variables of a key alone leaves KeyInv of it alone.
LEMMA OtherKeys ==
    ASSUME NEW j \in Keys, KeyInv(j),
           demand'[j] = demand[j], subState'[j] = subState[j], ops'[j] = ops[j],
           awaiting'[j] = awaiting[j], connected' = connected,
           serverSub'[j] = serverSub[j], clientSub'[j] = clientSub[j],
           rejected'[j] = rejected[j],
           closes' = 0 /\ rejects' = 0 => closes = 0 /\ rejects = 0
    PROVE  KeyInv(j)'
BY DEF KeyInv, AwaitingSubscribe, AwaitingUnsubscribe, AwaitingNothing, Real, WillReconcile,
       SubscribedIsDemanded, Undisturbed, Queued

\* The broker's calls chain an operation and touch nothing else of KeyInv.
LEMMA BrokerCalls ==
    ASSUME IInv, NEW k \in Keys, Acquire(k) \/ Release(k), NEW j \in Keys
    PROVE  KeyInv(j)'
<1>1. UNCHANGED <<demand, subState, awaiting, redisVars, rejected, closes, rejects>>
  BY DEF Acquire, Release, historyVars
<1>2. KeyInv(j) /\ ops[j] \in Seq(Operations)
  BY DEF IInv, TypeOK
<1>3. Queued(ops[j], "reconcile") => Queued(ops'[j], "reconcile")
  <2>1. \A e \in Operations :
          Queued(ops[j], "reconcile") => Queued(Append(ops[j], e), "reconcile")
    BY <1>2, QueuedAppend
  <2>2. PICK e \in Operations : ops' = [ops EXCEPT ![k] = Append(@, e)]
    BY DEF Acquire, Release, Operations
  <2>3. ops'[j] = ops[j] \/ ops'[j] = Append(ops[j], e)
    BY <2>2 DEF IInv, TypeOK
  <2> QED
    BY <2>1, <2>3
<1> QED
  BY <1>1, <1>2, <1>3
  DEF KeyInv, AwaitingSubscribe, AwaitingUnsubscribe, AwaitingNothing, Real,
      WillReconcile, SubscribedIsDemanded, Undisturbed, redisVars

\* The head of the chain: it starts only when nothing is awaited, so it finds
\* the key idle or subscribed.
LEMMA Operation ==
    ASSUME IInv, NEW k \in Keys, RunOperation(k), NEW j \in Keys
    PROVE  KeyInv(j)'
<1> USE DEF IInv, TypeOK
<1>1. KeyInv(j)
  OBVIOUS
<1>2. CASE j # k
  BY <1>1, <1>2, OtherKeys
  DEF RunOperation, RunIncrement, RunDecrement, RunReconcile, NextOperation,
      SubscribeIfNeeded, UnsubscribeIfNeeded, redisVars, historyVars
<1>3. CASE j = k
  <2> USE DEF KeyInv, AwaitingSubscribe, AwaitingUnsubscribe, AwaitingNothing, Real, SubscribedIsDemanded,
             Undisturbed, redisVars, historyVars
  <2>1. awaiting[k] = "none" /\ subState[k] \in {"idle", "subscribed"}
    BY <1>1, <1>3 DEF RunOperation, RunIncrement, RunDecrement, RunReconcile, NextOperation
  <2>2. CASE RunIncrement(k)
    <3>1. demand'[k] = demand[k] + 1 /\ UNCHANGED <<connected, serverSub, clientSub, closes, rejects>>
      BY <2>2 DEF RunIncrement
    <3>2. \/ /\ subState[k] = "idle"
             /\ subState'[k] = "subscribing"
             /\ awaiting'[k] = "subscribe"
          \/ /\ subState[k] = "subscribed"
             /\ subState'[k] = "subscribed"
             /\ awaiting'[k] = "none"
      BY <2>1, <2>2 DEF RunIncrement, SubscribeIfNeeded
    <3> QED
      BY <1>1, <1>3, <3>1, <3>2 DEF WillReconcile
  <2>3. CASE RunDecrement(k)
    <3>1. /\ demand'[k] = IF demand[k] > 0 THEN demand[k] - 1 ELSE demand[k]
          /\ UNCHANGED <<connected, serverSub, clientSub, rejected, closes, rejects>>
      BY <2>3 DEF RunDecrement
    <3>2. \/ /\ demand[k] = 1
             /\ subState[k] = "subscribed"
             /\ subState'[k] = "unsubscribing"
             /\ awaiting'[k] = "unsubscribe"
          \/ /\ demand[k] # 1 \/ subState[k] = "idle"
             /\ subState'[k] = subState[k]
             /\ awaiting'[k] = "none"
      BY <2>1, <2>3 DEF RunDecrement, UnsubscribeIfNeeded
    <3>3. Queued(ops[k], "reconcile") => Queued(ops'[k], "reconcile")
      BY <2>3, QueuedTail DEF RunDecrement, NextOperation
    <3>4. demand'[k] > 0 => demand[k] > 0
      BY <3>1
    <3>5. WillReconcile(k)'
      BY <1>1, <1>3, <2>1, <3>1, <3>2, <3>3, <3>4 DEF WillReconcile
    <3> QED
      BY <1>1, <1>3, <2>1, <3>1, <3>2, <3>5
  <2>4. CASE RunReconcile(k)
    <3>1. UNCHANGED <<demand, connected, serverSub, clientSub, rejected, closes, rejects>>
      BY <2>4 DEF RunReconcile
    <3>2. \/ /\ demand[k] > 0
             /\ subState[k] = "idle"
             /\ subState'[k] = "subscribing"
             /\ awaiting'[k] = "subscribe"
          \/ /\ demand[k] = 0 \/ subState[k] = "subscribed"
             /\ subState'[k] = subState[k]
             /\ awaiting'[k] = "none"
      BY <2>1, <2>4 DEF RunReconcile, SubscribeIfNeeded
    <3>3. demand'[k] = demand[k] /\ demand[k] \in Nat
      BY <3>1
    <3>4. WillReconcile(k)'
      BY <3>2, <3>3 DEF WillReconcile
    <3> QED
      BY <1>1, <1>3, <2>1, <3>1, <3>2, <3>3, <3>4
  <2> QED
    BY <2>2, <2>3, <2>4 DEF RunOperation
<1> QED
  BY <1>2, <1>3

\* The replies: the demand of the key cannot have changed under the operation.
LEMMA Replies ==
    ASSUME IInv, NEW k \in Keys, Answer(k), NEW j \in Keys
    PROVE  KeyInv(j)'
<1> USE DEF IInv, TypeOK
<1>1. KeyInv(j)
  OBVIOUS
<1>2. CASE j # k
  BY <1>1, <1>2, OtherKeys
  DEF Answer, SubscribeReply, SubscribeRejected, UnsubscribeReply, UnsubscribeRejected,
      AfterUnsubscribe, redisVars, historyVars
<1>3. CASE j = k
  <2> USE DEF KeyInv, AwaitingSubscribe, AwaitingUnsubscribe, AwaitingNothing, Real, WillReconcile,
             SubscribedIsDemanded, Undisturbed
  <2>1. CASE SubscribeReply(k)
    <3>1. /\ subState'[k] = "subscribed" /\ awaiting'[k] = "none"
          /\ connected' /\ serverSub'[k] /\ demand'[k] > 0
      BY <1>1, <1>3, <2>1 DEF SubscribeReply
    <3> QED
      BY <1>3, <3>1
  <2>2. CASE SubscribeRejected(k)
    <3>1. subState'[k] = "idle" /\ awaiting'[k] = "none" /\ rejected'[k] /\ rejects' # 0
      BY <2>2 DEF SubscribeRejected
    <3> QED
      BY <1>3, <3>1
  <2>3. CASE UnsubscribeReply(k) \/ UnsubscribeRejected(k)
    <3>1. awaiting[k] = "unsubscribe" /\ AfterUnsubscribe(k) /\ demand' = demand
      BY <2>3 DEF UnsubscribeReply, UnsubscribeRejected
    <3>2. demand'[k] = 0 /\ subState'[k] = "idle" /\ awaiting'[k] = "none"
      BY <1>1, <1>3, <3>1 DEF AfterUnsubscribe
    <3>3. CASE UnsubscribeReply(k)
      <4>1. ~serverSub'[k] /\ ~clientSub'[k]
        BY <3>3 DEF UnsubscribeReply
      <4> QED
        BY <1>3, <3>2, <4>1
    <3>4. CASE UnsubscribeRejected(k)
      <4>1. rejects' # 0
        BY <3>4 DEF UnsubscribeRejected
      <4> QED
        BY <1>3, <3>2, <4>1
    <3> QED
      BY <2>3, <3>3, <3>4
  <2> QED
    BY <2>1, <2>2, <2>3 DEF Answer
<1> QED
  BY <1>2, <1>3

\* onClose and onReady run whatever is in flight.
LEMMA Connection ==
    ASSUME IInv, Close \/ Ready, NEW j \in Keys
    PROVE  KeyInv(j)'
<1> USE DEF IInv, TypeOK, KeyInv, AwaitingSubscribe, AwaitingUnsubscribe, AwaitingNothing, Real,
           SubscribedIsDemanded, Undisturbed
<1>1. KeyInv(j)
  OBVIOUS
<1>2. CASE Close
  <2>1. /\ ~connected' /\ closes' # 0
        /\ UNCHANGED <<demand, awaiting>>
        /\ subState'[j] = IF subState[j] \in {"subscribed", "subscribing"}
                          THEN "idle" ELSE subState[j]
    BY <1>2 DEF Close
  <2> QED
    BY <1>1, <2>1 DEF WillReconcile
<1>3. CASE Ready
  <2>1. /\ ~connected
        /\ UNCHANGED <<demand, awaiting, clientSub, closes, rejects>>
        /\ serverSub' = clientSub
        /\ subState'[j] = IF demand[j] > 0 THEN "idle" ELSE subState[j]
    BY <1>3 DEF Ready, Demanded
  <2>2. demand[j] > 0 => Queued(ops'[j], "reconcile")
    <3>1. Queued(Append(ops[j], "reconcile"), "reconcile")
      BY QueuedLast DEF Operations
    <3> QED
      BY <1>3, <3>1 DEF Ready, Demanded
  <2> QED
    BY <1>1, <2>1, <2>2 DEF WillReconcile
<1> QED
  BY <1>2, <1>3

\* KeyInv holds of every key in every reachable state.
THEOREM KeyInvariant == Spec => []IInv
<1>1. Init => IInv
  <2>1. Init => TypeOK
    BY TypeInit
  <2>2. Init => \A k \in Keys : KeyInv(k)
    BY DEF Init, KeyInv, AwaitingSubscribe, AwaitingUnsubscribe, AwaitingNothing, Real, WillReconcile,
            SubscribedIsDemanded, Undisturbed
  <2> QED
    BY <2>1, <2>2 DEF IInv
<1>2. IInv /\ [Next]_vars => IInv'
  <2> SUFFICES ASSUME IInv, [Next]_vars, NEW j \in Keys PROVE TypeOK' /\ KeyInv(j)'
    BY TypeStep DEF IInv
  <2>1. TypeOK'
    BY TypeStep DEF IInv
  <2>2. CASE Next
    <3>1. KeyInv(j)'
      BY <2>2, BrokerCalls, Operation, Replies, Connection DEF Next
    <3> QED
      BY <2>1, <3>1
  <2>3. CASE UNCHANGED vars
    <3>1. KeyInv(j)'
      BY <2>3, OtherKeys DEF vars, managerVars, redisVars, historyVars, IInv
    <3> QED
      BY <2>1, <3>1
  <2> QED
    BY <2>2, <2>3
<1> QED
  BY <1>1, <1>2, PTL DEF Spec

\* A key in state 'subscribed' is delivered by Redis on the current connection.
THEOREM SubscribedIsRealAlways == Spec => []SubscribedIsReal
<1>1. IInv => SubscribedIsReal
  BY DEF IInv, KeyInv, Real, SubscribedIsReal
<1> QED
  BY <1>1, KeyInvariant, PTL

\* A demanded key on which no work is left is subscribed, whatever closes,
\* reconnects, replies and operations raced.
THEOREM DemandedIsSubscribedAlways == Spec => []DemandedIsSubscribed
<1>1. ASSUME IInv PROVE DemandedIsSubscribed
  <2> SUFFICES ASSUME NEW k \in Keys, connected, awaiting[k] = "none", ops[k] = <<>>,
                      demand[k] > 0, ~rejected[k]
               PROVE  subState[k] = "subscribed" /\ serverSub[k]
    BY DEF DemandedIsSubscribed
  <2>1. ~Queued(ops[k], "reconcile")
    BY DEF Queued
  <2>2. subState[k] = "subscribed"
    BY <1>1, <2>1 DEF IInv, KeyInv, AwaitingNothing, WillReconcile
  <2> QED
    BY <1>1, <2>2 DEF IInv, KeyInv, Real
<1> QED
  BY <1>1, KeyInvariant, PTL

\* Until the connection is lost or a command rejected, no channel stays
\* subscribed in Redis after the last decrement of its key.
THEOREM UnsubscribedOnLastDemandAlways == Spec => []UnsubscribedOnLastDemand
<1>1. ASSUME IInv PROVE UnsubscribedOnLastDemand
  <2> SUFFICES ASSUME NEW k \in Keys, Abandoned(k), closes = 0, rejects = 0
               PROVE  ~serverSub[k]
    BY DEF UnsubscribedOnLastDemand
  <2>1. subState[k] = "idle"
    BY <1>1 DEF IInv, TypeOK, KeyInv, AwaitingNothing, SubscribedIsDemanded, Abandoned
  <2> QED
    BY <1>1, <2>1 DEF IInv, KeyInv, Undisturbed
<1> QED
  BY <1>1, KeyInvariant, PTL

-----------------------------------------------------------------------------
(* The demand counts the holders.                                          *)

\* How often an operation occurs among the first n of a queue.
Places(s, e, n) == {i \in DOMAIN s : i <= n /\ s[i] = e}
Count(s, e, n) == Cardinality(Places(s, e, n))

LEMMA PlacesFinite ==
    ASSUME NEW S, NEW s \in Seq(S), NEW e, NEW n
    PROVE  IsFiniteSet(Places(s, e, n)) /\ Count(s, e, n) \in Nat
<1>1. Places(s, e, n) \subseteq 1..Len(s) /\ Len(s) \in Nat
  BY DEF Places
<1>2. IsFiniteSet(1..Len(s))
  BY <1>1, FS_Interval
<1>3. IsFiniteSet(Places(s, e, n))
  BY <1>1, <1>2, FS_Subset
<1> QED
  BY <1>3, FS_CardinalityType DEF Count

LEMMA CountAll ==
    ASSUME NEW S, NEW s \in Seq(S), NEW e
    PROVE  Occurrences(s, e) = Count(s, e, Len(s))
<1>1. {i \in DOMAIN s : s[i] = e} = Places(s, e, Len(s))
  BY DEF Places
<1> QED
  BY <1>1 DEF Occurrences, Count

\* Chaining an operation counts it at the end.
LEMMA CountAppend ==
    ASSUME NEW S, NEW s \in Seq(S), NEW x \in S, NEW e
    PROVE  /\ Len(Append(s, x)) = Len(s) + 1 /\ Len(s) \in Nat
           /\ \A n \in 0..Len(s) : Count(Append(s, x), e, n) = Count(s, e, n)
           /\ Count(Append(s, x), e, Len(s) + 1) =
                 IF x = e THEN Count(s, e, Len(s)) + 1 ELSE Count(s, e, Len(s))
<1>1. /\ Len(Append(s, x)) = Len(s) + 1 /\ Len(s) \in Nat
      /\ \A i \in 1..Len(s) : Append(s, x)[i] = s[i]
      /\ Append(s, x)[Len(s) + 1] = x
      /\ DOMAIN s = 1..Len(s) /\ DOMAIN Append(s, x) = 1..(Len(s) + 1)
  OBVIOUS
<1>2. ASSUME NEW n \in 0..Len(s) PROVE Places(Append(s, x), e, n) = Places(s, e, n)
  BY <1>1 DEF Places
<1>3. Places(Append(s, x), e, Len(s) + 1) =
         IF x = e THEN Places(s, e, Len(s)) \cup {Len(s) + 1} ELSE Places(s, e, Len(s))
  BY <1>1 DEF Places
<1>4. Len(s) + 1 \notin Places(s, e, Len(s))
  BY <1>1 DEF Places
<1>5. IsFiniteSet(Places(s, e, Len(s)))
  BY PlacesFinite
<1>6. Cardinality(Places(s, e, Len(s)) \cup {Len(s) + 1}) = Cardinality(Places(s, e, Len(s))) + 1
  BY <1>4, <1>5, FS_AddElement
<1> QED
  BY <1>1, <1>2, <1>3, <1>6 DEF Count

\* Starting an operation takes it off the front.
LEMMA CountTail ==
    ASSUME NEW S, NEW s \in Seq(S), s # <<>>, NEW e
    PROVE  /\ Len(Tail(s)) = Len(s) - 1 /\ Len(s) \in Nat \ {0}
           /\ \A n \in 0..Len(Tail(s)) :
                 Count(s, e, n + 1) =
                    IF Head(s) = e THEN Count(Tail(s), e, n) + 1 ELSE Count(Tail(s), e, n)
<1>1. /\ Len(Tail(s)) = Len(s) - 1 /\ Len(s) \in Nat \ {0}
      /\ \A i \in 1..Len(Tail(s)) : Tail(s)[i] = s[i + 1]
      /\ DOMAIN s = 1..Len(s) /\ DOMAIN Tail(s) = 1..Len(Tail(s))
      /\ Head(s) = s[1] /\ Tail(s) \in Seq(S)
  OBVIOUS
<1> SUFFICES ASSUME NEW n \in 0..Len(Tail(s))
             PROVE  Count(s, e, n + 1) =
                       IF Head(s) = e THEN Count(Tail(s), e, n) + 1 ELSE Count(Tail(s), e, n)
  BY <1>1
<1> DEFINE P == Places(Tail(s), e, n)
           Q == Places(s, e, n + 1) \ {1}
           shift == [i \in P |-> i + 1]
<1>2. \A i \in P : i + 1 \in Q
  BY <1>1 DEF Places
<1>3. \A j \in Q : j - 1 \in P /\ j - 1 + 1 = j
  <2> SUFFICES ASSUME NEW j \in Q PROVE j - 1 \in P /\ j - 1 + 1 = j
    OBVIOUS
  <2>1. j \in 1..Len(s) /\ j # 1 /\ j <= n + 1 /\ s[j] = e
    BY <1>1 DEF Places
  <2>2. j - 1 \in 1..Len(Tail(s)) /\ j - 1 <= n /\ j - 1 + 1 = j
    BY <1>1, <2>1
  <2>3. Tail(s)[j - 1] = s[j]
    BY <1>1, <2>2
  <2> QED
    BY <1>1, <2>1, <2>2, <2>3 DEF Places
<1>4. \A i \in P : i \in Int
  BY <1>1 DEF Places
<1>5. shift \in Bijection(P, Q)
  <2>1. shift \in [P -> Q]
    BY <1>2
  <2>2. \A a, b \in P : shift[a] = shift[b] => a = b
    BY <1>4
  <2>3. \A j \in Q : \E i \in P : shift[i] = j
    BY <1>3
  <2> HIDE DEF P, Q, shift
  <2> QED
    BY <2>1, <2>2, <2>3, Fun_IsBij
<1>6. IsFiniteSet(P) /\ Cardinality(P) \in Nat
  BY <1>1, PlacesFinite, FS_CardinalityType
<1>7. Cardinality(Q) = Cardinality(P) /\ IsFiniteSet(Q)
  <2>1. ExistsBijection(P, Q)
    BY <1>5, Fun_ExistsBij
  <2> HIDE DEF P, Q
  <2> QED
    BY <1>6, <2>1, FS_Bijection
<1>8. Places(s, e, n + 1) = IF Head(s) = e THEN Q \cup {1} ELSE Q
  BY <1>1 DEF Places
<1>9. Cardinality(Q \cup {1}) = Cardinality(Q) + 1
  BY <1>7, FS_AddElement
<1> QED
  BY <1>7, <1>8, <1>9 DEF Count

\* No decrement overtakes the increment of its connection: whatever prefix of
\* a queue has run, the demand has not been driven below zero.
NeverBelowZero ==
    \A k \in Keys : \A n \in 0..Len(ops[k]) :
        Count(ops[k], "decrement", n) <= demand[k] + Count(ops[k], "increment", n)

CountInv == DemandCountsHolders /\ NeverBelowZero

\* The counts of one key, in the two forms the steps need.
KeyCounts(s, d, h) ==
    /\ d + Count(s, "increment", Len(s)) = h + Count(s, "decrement", Len(s))
    /\ \A n \in 0..Len(s) : Count(s, "decrement", n) <= d + Count(s, "increment", n)

LEMMA CountsPerKey ==
    ASSUME TypeOK
    PROVE  CountInv <=> \A k \in Keys : KeyCounts(ops[k], demand[k], holders[k])
<1>1. \A k \in Keys : ops[k] \in Seq(Operations)
  BY DEF TypeOK
<1>2. ASSUME NEW k \in Keys
      PROVE  /\ Occurrences(ops[k], "increment") = Count(ops[k], "increment", Len(ops[k]))
             /\ Occurrences(ops[k], "decrement") = Count(ops[k], "decrement", Len(ops[k]))
  BY <1>1, CountAll
<1> QED
  BY <1>2 DEF CountInv, DemandCountsHolders, NeverBelowZero, KeyCounts

\* A call of the broker, or a reconcile, chains one operation.
LEMMA CountsChained ==
    ASSUME NEW s \in Seq(Operations), NEW d \in Nat, NEW h \in Nat, NEW op \in Operations,
           NEW g \in Nat, KeyCounts(s, d, h),
           \/ op = "increment" /\ g = h + 1
           \/ op = "decrement" /\ h > 0 /\ g = h - 1
           \/ op = "reconcile" /\ g = h
    PROVE  KeyCounts(Append(s, op), d, g)
<1>1. /\ Len(Append(s, op)) = Len(s) + 1 /\ Len(s) \in Nat
      /\ \A e : /\ \A n \in 0..Len(s) : Count(Append(s, op), e, n) = Count(s, e, n)
                /\ Count(Append(s, op), e, Len(s) + 1) =
                      IF op = e THEN Count(s, e, Len(s)) + 1 ELSE Count(s, e, Len(s))
  <2>1. Len(Append(s, op)) = Len(s) + 1 /\ Len(s) \in Nat
    OBVIOUS
  <2>2. ASSUME NEW e
        PROVE  /\ \A n \in 0..Len(s) : Count(Append(s, op), e, n) = Count(s, e, n)
               /\ Count(Append(s, op), e, Len(s) + 1) =
                     IF op = e THEN Count(s, e, Len(s)) + 1 ELSE Count(s, e, Len(s))
    BY CountAppend
  <2> QED
    BY <2>1, <2>2
<1>2. Count(s, "increment", Len(s)) \in Nat /\ Count(s, "decrement", Len(s)) \in Nat
  BY PlacesFinite
<1>3. d + Count(s, "increment", Len(s)) = h + Count(s, "decrement", Len(s))
  BY DEF KeyCounts
<1>4. /\ Count(Append(s, op), "increment", Len(s) + 1) =
            IF op = "increment" THEN Count(s, "increment", Len(s)) + 1
                                ELSE Count(s, "increment", Len(s))
      /\ Count(Append(s, op), "decrement", Len(s) + 1) =
            IF op = "decrement" THEN Count(s, "decrement", Len(s)) + 1
                                ELSE Count(s, "decrement", Len(s))
  BY <1>1
<1>5. /\ d + Count(Append(s, op), "increment", Len(s) + 1)
            = g + Count(Append(s, op), "decrement", Len(s) + 1)
      /\ Count(Append(s, op), "decrement", Len(s) + 1)
            <= d + Count(Append(s, op), "increment", Len(s) + 1)
  <2>1. CASE op = "increment" /\ g = h + 1
    BY <1>2, <1>3, <1>4, <2>1
  <2>2. CASE op = "decrement" /\ h > 0 /\ g = h - 1
    BY <1>2, <1>3, <1>4, <2>2
  <2>3. CASE op = "reconcile" /\ g = h
    BY <1>2, <1>3, <1>4, <2>3
  <2> QED
    BY <2>1, <2>2, <2>3
<1>6. ASSUME NEW n \in 0..Len(Append(s, op))
      PROVE  Count(Append(s, op), "decrement", n) <= d + Count(Append(s, op), "increment", n)
  <2>1. CASE n = Len(s) + 1
    BY <1>5, <2>1
  <2>2. CASE n \in 0..Len(s)
    BY <1>1, <2>2 DEF KeyCounts
  <2> QED
    BY <1>1, <2>1, <2>2
<1> QED
  BY <1>1, <1>5, <1>6 DEF KeyCounts

\* An operation that starts changes the demand by what it counted for.
LEMMA CountsStarted ==
    ASSUME NEW s \in Seq(Operations), s # <<>>, NEW d \in Nat, NEW h \in Nat, KeyCounts(s, d, h),
           NEW c \in Nat,
           \/ Head(s) = "increment" /\ c = d + 1
           \/ Head(s) = "decrement" /\ c = (IF d > 0 THEN d - 1 ELSE d)
           \/ Head(s) = "reconcile" /\ c = d
    PROVE  KeyCounts(Tail(s), c, h)
<1>1. /\ Len(Tail(s)) = Len(s) - 1 /\ Len(s) \in Nat \ {0} /\ Tail(s) \in Seq(Operations)
      /\ \A e : \A n \in 0..Len(Tail(s)) :
            Count(s, e, n + 1) =
               IF Head(s) = e THEN Count(Tail(s), e, n) + 1 ELSE Count(Tail(s), e, n)
  BY CountTail
<1>2. \A e, n : Count(s, e, n) \in Nat /\ Count(Tail(s), e, n) \in Nat
  BY <1>1, PlacesFinite
<1>3. ASSUME Head(s) = "decrement" PROVE d > 0
  <2>1. Count(s, "decrement", 1) <= d + Count(s, "increment", 1)
    BY <1>1 DEF KeyCounts
  <2>2. 0 \in 0..Len(Tail(s)) /\ 0 + 1 = 1
    BY <1>1
  <2>3. /\ Count(s, "decrement", 1) = Count(Tail(s), "decrement", 0) + 1
        /\ Count(s, "increment", 1) = Count(Tail(s), "increment", 0)
    BY <1>1, <1>3, <2>2
  <2>4. Count(Tail(s), "increment", 0) = 0
    <3>1. Places(Tail(s), "increment", 0) = {}
      BY <1>1 DEF Places
    <3> QED
      BY <3>1, FS_EmptySet DEF Count
  <2> QED
    BY <1>2, <2>1, <2>3, <2>4
<1>4. ASSUME NEW n \in 0..Len(Tail(s))
      PROVE  /\ n + 1 \in 0..Len(s)
             /\ Count(Tail(s), "decrement", n) - Count(Tail(s), "increment", n) - c
                  = Count(s, "decrement", n + 1) - Count(s, "increment", n + 1) - d
  <2>1. n + 1 \in 0..Len(s)
    BY <1>1
  <2>2. /\ Count(s, "decrement", n + 1) =
              IF Head(s) = "decrement" THEN Count(Tail(s), "decrement", n) + 1
                                       ELSE Count(Tail(s), "decrement", n)
        /\ Count(s, "increment", n + 1) =
              IF Head(s) = "increment" THEN Count(Tail(s), "increment", n) + 1
                                       ELSE Count(Tail(s), "increment", n)
    BY <1>1
  <2>t. /\ Count(s, "decrement", n + 1) \in Nat /\ Count(s, "increment", n + 1) \in Nat
        /\ Count(Tail(s), "decrement", n) \in Nat /\ Count(Tail(s), "increment", n) \in Nat
    BY <1>2
  <2>3. CASE Head(s) = "increment" /\ c = d + 1
    <3>1. /\ Count(s, "decrement", n + 1) = Count(Tail(s), "decrement", n)
          /\ Count(s, "increment", n + 1) = Count(Tail(s), "increment", n) + 1
      BY <2>2, <2>3
    <3> QED
      BY <2>t, <2>1, <2>3, <3>1
  <2>4. CASE Head(s) = "decrement" /\ c = (IF d > 0 THEN d - 1 ELSE d)
    <3>1. /\ Count(s, "decrement", n + 1) = Count(Tail(s), "decrement", n) + 1
          /\ Count(s, "increment", n + 1) = Count(Tail(s), "increment", n)
      BY <2>2, <2>4
    <3>2. c = d - 1
      BY <1>3, <2>4
    <3> QED
      BY <2>t, <2>1, <3>1, <3>2
  <2>5. CASE Head(s) = "reconcile" /\ c = d
    <3>1. /\ Count(s, "decrement", n + 1) = Count(Tail(s), "decrement", n)
          /\ Count(s, "increment", n + 1) = Count(Tail(s), "increment", n)
      BY <2>2, <2>5
    <3> QED
      BY <2>t, <2>1, <2>5, <3>1
  <2> QED
    BY <2>3, <2>4, <2>5
<1>5. ASSUME NEW n \in 0..Len(Tail(s))
      PROVE  Count(Tail(s), "decrement", n) <= c + Count(Tail(s), "increment", n)
  <2>1. Count(s, "decrement", n + 1) <= d + Count(s, "increment", n + 1)
    BY <1>4 DEF KeyCounts
  <2> QED
    BY <1>2, <1>4, <2>1
<1>6. c + Count(Tail(s), "increment", Len(Tail(s))) = h + Count(Tail(s), "decrement", Len(Tail(s)))
  <2>1. Len(Tail(s)) \in 0..Len(Tail(s)) /\ Len(Tail(s)) + 1 = Len(s)
    BY <1>1
  <2>2. d + Count(s, "increment", Len(s)) = h + Count(s, "decrement", Len(s))
    BY DEF KeyCounts
  <2>3. Count(Tail(s), "decrement", Len(Tail(s))) - Count(Tail(s), "increment", Len(Tail(s))) - c
           = Count(s, "decrement", Len(s)) - Count(s, "increment", Len(s)) - d
    BY <1>4, <2>1
  <2>4. /\ Count(s, "decrement", Len(s)) \in Nat /\ Count(s, "increment", Len(s)) \in Nat
        /\ Count(Tail(s), "decrement", Len(Tail(s))) \in Nat
        /\ Count(Tail(s), "increment", Len(Tail(s))) \in Nat
    BY <1>2
  <2> QED
    BY <2>2, <2>3, <2>4
<1> QED
  BY <1>5, <1>6 DEF KeyCounts

LEMMA CountStep == TypeOK /\ TypeOK' /\ CountInv /\ [Next]_vars => CountInv'
<1> SUFFICES ASSUME TypeOK, TypeOK', CountInv, [Next]_vars PROVE CountInv'
  OBVIOUS
<1>0. ASSUME NEW k \in Keys
      PROVE  /\ Occurrences(ops'[k], "increment") = Count(ops'[k], "increment", Len(ops'[k]))
             /\ Occurrences(ops'[k], "decrement") = Count(ops'[k], "decrement", Len(ops'[k]))
  <2>1. ops'[k] \in Seq(Operations)
    BY DEF TypeOK
  <2> QED
    BY <2>1, CountAll
<1> SUFFICES ASSUME NEW j \in Keys PROVE KeyCounts(ops'[j], demand'[j], holders'[j])
  BY <1>0 DEF CountInv, DemandCountsHolders, NeverBelowZero, KeyCounts
<1>t. /\ ops[j] \in Seq(Operations) /\ demand[j] \in Nat /\ holders[j] \in Nat
      /\ demand'[j] \in Nat /\ holders'[j] \in Nat
      /\ KeyCounts(ops[j], demand[j], holders[j])
  BY CountsPerKey DEF TypeOK
<1>k. ASSUME ops'[j] = ops[j], demand'[j] = demand[j], holders'[j] = holders[j]
      PROVE  KeyCounts(ops'[j], demand'[j], holders'[j])
  BY <1>k, <1>t
<1>c. ASSUME NEW op \in Operations, ops'[j] = Append(ops[j], op), demand'[j] = demand[j],
             \/ op = "increment" /\ holders'[j] = holders[j] + 1
             \/ op = "decrement" /\ holders[j] > 0 /\ holders'[j] = holders[j] - 1
             \/ op = "reconcile" /\ holders'[j] = holders[j]
      PROVE  KeyCounts(ops'[j], demand'[j], holders'[j])
  BY <1>c, <1>t, CountsChained
<1>1. ASSUME NEW k \in Keys, Acquire(k) PROVE KeyCounts(ops'[j], demand'[j], holders'[j])
  <2>1. CASE k = j
    BY <1>1, <1>c, <1>t, <2>1 DEF Acquire, TypeOK, Operations
  <2>2. CASE k # j
    BY <1>1, <1>k, <2>2 DEF Acquire, TypeOK
  <2> QED
    BY <2>1, <2>2
<1>2. ASSUME NEW k \in Keys, Release(k) PROVE KeyCounts(ops'[j], demand'[j], holders'[j])
  <2>1. CASE k = j
    BY <1>2, <1>c, <1>t, <2>1 DEF Release, TypeOK, Operations
  <2>2. CASE k # j
    BY <1>2, <1>k, <2>2 DEF Release, TypeOK
  <2> QED
    BY <2>1, <2>2
<1>3. ASSUME NEW k \in Keys, RunOperation(k) PROVE KeyCounts(ops'[j], demand'[j], holders'[j])
  <2>1. /\ ops[k] # <<>> /\ ops' = [ops EXCEPT ![k] = Tail(@)] /\ UNCHANGED holders
        /\ \/ Head(ops[k]) = "increment" /\ demand' = [demand EXCEPT ![k] = @ + 1]
           \/ Head(ops[k]) = "decrement"
              /\ demand' = [demand EXCEPT ![k] = IF @ > 0 THEN @ - 1 ELSE @]
           \/ Head(ops[k]) = "reconcile" /\ UNCHANGED demand
    BY <1>3 DEF RunOperation, RunIncrement, RunDecrement, RunReconcile, NextOperation
  <2>2. CASE k = j
    <3>1. /\ ops[j] # <<>> /\ ops'[j] = Tail(ops[j]) /\ holders'[j] = holders[j]
          /\ \/ Head(ops[j]) = "increment" /\ demand'[j] = demand[j] + 1
             \/ Head(ops[j]) = "decrement"
                /\ demand'[j] = (IF demand[j] > 0 THEN demand[j] - 1 ELSE demand[j])
             \/ Head(ops[j]) = "reconcile" /\ demand'[j] = demand[j]
      BY <2>1, <2>2 DEF TypeOK
    <3> QED
      BY <1>t, <3>1, CountsStarted
  <2>3. CASE k # j
    BY <1>k, <2>1, <2>3 DEF TypeOK
  <2> QED
    BY <2>2, <2>3
<1>4. ASSUME NEW k \in Keys, Answer(k) PROVE KeyCounts(ops'[j], demand'[j], holders'[j])
  BY <1>4, <1>k DEF Answer, SubscribeReply, SubscribeRejected, UnsubscribeReply, UnsubscribeRejected
<1>5. ASSUME Close PROVE KeyCounts(ops'[j], demand'[j], holders'[j])
  BY <1>5, <1>k DEF Close
<1>6. ASSUME Ready PROVE KeyCounts(ops'[j], demand'[j], holders'[j])
  <2>1. UNCHANGED <<demand, holders>>
    BY <1>6 DEF Ready
  <2>2. CASE j \in Demanded
    BY <1>6, <1>c, <2>1, <2>2 DEF Ready, Operations
  <2>3. CASE j \notin Demanded
    BY <1>6, <1>k, <2>1, <2>3 DEF Ready
  <2> QED
    BY <2>2, <2>3
<1>7. ASSUME UNCHANGED vars PROVE KeyCounts(ops'[j], demand'[j], holders'[j])
  BY <1>7, <1>k DEF vars, managerVars
<1> QED
  BY <1>1, <1>2, <1>3, <1>4, <1>5, <1>6, <1>7 DEF Next

\* No demand is lost or invented, for any number of connections and queued
\* operations; and no decrement is run before the increment it takes back.
THEOREM DemandCountsHoldersAlways == Spec => []DemandCountsHolders
<1>1. Init => CountInv
  <2> SUFFICES ASSUME Init PROVE CountInv
    OBVIOUS
  <2>1. \A k \in Keys : ops[k] = <<>> /\ demand[k] = 0 /\ holders[k] = 0
    BY DEF Init
  <2>2. ASSUME NEW e, NEW n PROVE Count(<<>>, e, n) = 0
    <3>1. Places(<<>>, e, n) = {}
      BY DEF Places
    <3> QED
      BY <3>1, FS_EmptySet DEF Count
  <2>3. \A k \in Keys : KeyCounts(ops[k], demand[k], holders[k])
    BY <2>1, <2>2 DEF KeyCounts
  <2> QED
    BY <2>3, TypeInit, CountsPerKey
<1>2. CountInv => DemandCountsHolders
  BY DEF CountInv
<1> QED
  BY <1>1, <1>2, CountStep, TypeCorrect, PTL DEF Spec

=============================================================================
