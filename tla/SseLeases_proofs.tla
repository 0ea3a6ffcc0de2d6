-------------------------- MODULE SseLeases_proofs --------------------------
(***************************************************************************)
(* Proofs about the SSE connection quota for any connections, limit, lease *)
(* times and delays: type correctness, the limit Redis enforces, the       *)
(* in-memory count of the connections that hold quota, and the lease that  *)
(* every live stream has.                                                  *)
(***************************************************************************)
EXTENDS SseLeases, FiniteSetTheorems, SequenceTheorems, TLAPS

-----------------------------------------------------------------------------
(* Type correctness.                                                       *)

\* The parts of the types: what the process keeps, what Redis and the client
\* of Redis keep, and the history.
ServiceTyped ==
    /\ phase \in [Conns -> Phases]
    /\ response \in [Conns -> {"none", "live", "ended", "closed"}]
    /\ released \in [Conns -> BOOLEAN]
    /\ lastBeat \in [Conns -> Nat]
    /\ active \in Nat
QueuesTyped == pending \in Seq(Script) /\ answered \in Seq(Reply)
HistoryTyped ==
    /\ closedAt \in [Conns -> Nat] /\ falseReject \in BOOLEAN
    /\ erred \subseteq Conns /\ faults \in Nat
LeasesTyped == leases \in [Conns -> Nat]

LEMMA TypedParts ==
    TypeOK <=> clock \in Nat /\ ServiceTyped /\ QueuesTyped /\ HistoryTyped /\ LeasesTyped
BY DEF TypeOK, ServiceTyped, QueuesTyped, HistoryTyped, LeasesTyped

\* A new service is well typed.
LEMMA TypeInit == Init => TypeOK
<1> SUFFICES ASSUME Init PROVE TypeOK
  OBVIOUS
<1>1. clock \in Nat /\ ServiceTyped
  BY DEF Init, ServiceTyped, Phases
<1>2. QueuesTyped
  BY DEF Init, QueuesTyped
<1>3. HistoryTyped
  BY DEF Init, HistoryTyped
<1>4. LeasesTyped
  BY DEF Init, LeasesTyped
<1> QED
  BY <1>1, <1>2, <1>3, <1>4, TypedParts

\* Sending a script.
LEMMA SendTyped ==
    ASSUME TypeOK, NEW op \in Scripts, NEW c \in Conns
    PROVE  /\ Send(op, c) \in Seq(Script)
           /\ Len(Send(op, c)) = Len(pending) + 1
           /\ \A i \in 1..Len(pending) : Send(op, c)[i] = pending[i]
           /\ Send(op, c)[Len(pending) + 1] = [op |-> op, conn |-> c, at |-> clock]
<1>1. [op |-> op, conn |-> c, at |-> clock] \in Script
  BY DEF TypeOK, Script
<1>2. pending \in Seq(Script)
  BY DEF TypeOK
<1> QED
  BY <1>1, <1>2 DEF Send

\* A script that is sent lengthens the queue.
LEMMA SendNew ==
    ASSUME TypeOK, NEW op \in Scripts, NEW c \in Conns
    PROVE  Send(op, c) # pending
<1>1. Len(pending) \in Nat
  BY DEF TypeOK
<1>2. Len(Send(op, c)) = Len(pending) + 1
  BY SendTyped
<1> SUFFICES ASSUME Send(op, c) = pending PROVE FALSE
  OBVIOUS
<1>3. Len(Send(op, c)) = Len(pending)
  OBVIOUS
<1> QED
  BY <1>1, <1>2, <1>3

\* Giving quota back.
LEMMA ReleaseTyped ==
    ASSUME TypeOK, NEW c \in Conns, ReleaseQuota(c)
    PROVE  /\ released' \in [Conns -> BOOLEAN]
           /\ active' \in Nat
           /\ pending' \in Seq(Script)
<1>1. Send("release", c) \in Seq(Script)
  BY SendTyped DEF Scripts
<1>2. CASE UNCHANGED <<released, active, pending>>
  BY <1>2 DEF TypeOK
<1>3. CASE /\ released' = [released EXCEPT ![c] = TRUE]
           /\ active' = IF active > 0 THEN active - 1 ELSE 0
           /\ pending' = Send("release", c)
  <2>1. active' \in Nat
    BY <1>3 DEF TypeOK
  <2>2. released' \in [Conns -> BOOLEAN]
    BY <1>3 DEF TypeOK
  <2> QED
    BY <1>1, <1>3, <2>1, <2>2
<1> QED
  BY <1>2, <1>3 DEF ReleaseQuota

\* Running a script.
LEMMA EffectTyped ==
    ASSUME TypeOK, NEW s \in Script
    PROVE  Effect(s) \in [Conns -> Nat]
<1>1. s.at \in Nat /\ s.conn \in Conns /\ s.op \in Scripts
  BY DEF Script
<1>2. Pruned(s.at) \in [Conns -> Nat]
  BY DEF Pruned, TypeOK
<1>3. s.at + Ttl \in Nat
  BY <1>1, QuotaAssumption
<1>4. AcquireEffect(s) \in [Conns -> Nat]
  BY <1>2, <1>3 DEF AcquireEffect
<1>5. RefreshEffect(s) \in [Conns -> Nat]
  BY <1>2, <1>3 DEF RefreshEffect
<1>6. ReleaseEffect(s) \in [Conns -> Nat]
  BY DEF ReleaseEffect, TypeOK
<1>7. /\ s.op = "acquire" => Effect(s) = AcquireEffect(s)
      /\ s.op = "refresh" => Effect(s) = RefreshEffect(s)
      /\ s.op = "release" => Effect(s) = ReleaseEffect(s)
  BY DEF Effect
<1> QED
  BY <1>1, <1>4, <1>5, <1>6, <1>7 DEF Scripts

\* The head of the scripts, and of the replies.
LEMMA HeadPending ==
    ASSUME TypeOK, pending # <<>>
    PROVE  Head(pending) \in Script /\ Tail(pending) \in Seq(Script)
BY DEF TypeOK

LEMMA HeadAnswered ==
    ASSUME TypeOK, answered # <<>>
    PROVE  /\ Head(answered) \in Reply /\ Head(answered).conn \in Conns
           /\ Tail(answered) \in Seq(Reply)
<1>1. Head(answered) \in Reply /\ Tail(answered) \in Seq(Reply)
  BY DEF TypeOK
<1> QED
  BY <1>1 DEF Reply

LEMMA AnswerTyped ==
    ASSUME TypeOK, NEW s \in Script, NEW result \in {"yes", "no", "error"}
    PROVE  Answer(s, result) \in Seq(Reply)
<1>1. [op |-> s.op, conn |-> s.conn, at |-> s.at, result |-> result] \in Reply
  BY DEF Script, Reply
<1> QED
  BY <1>1 DEF Answer, TypeOK

\* The scripts to send again after a lost connection.
Resent == [i \in 1..Len(answered) |->
             [op |-> answered[i].op, conn |-> answered[i].conn, at |-> answered[i].at]]

LEMMA ResentTyped ==
    ASSUME TypeOK
    PROVE  /\ Resent \in Seq(Script) /\ Len(Resent) = Len(answered)
           /\ Len(Resent \o pending) = Len(answered) + Len(pending)
           /\ \A i \in 1..Len(answered) :
                 (Resent \o pending)[i] = [op |-> answered[i].op, conn |-> answered[i].conn,
                                           at |-> answered[i].at]
           /\ \A i \in 1..Len(pending) : (Resent \o pending)[Len(answered) + i] = pending[i]
           /\ Resent \o pending \in Seq(Script)
<1>1. Len(answered) \in Nat /\ \A i \in 1..Len(answered) : answered[i] \in Reply
  BY DEF TypeOK
<1>2. Resent \in [1..Len(answered) -> Script]
  BY <1>1 DEF Resent, Script, Reply
<1>3. Resent \in Seq(Script) /\ Len(Resent) = Len(answered)
  BY <1>1, <1>2
<1>4. pending \in Seq(Script)
  BY DEF TypeOK
<1>5. \A i \in 1..Len(answered) :
         Resent[i] = [op |-> answered[i].op, conn |-> answered[i].conn, at |-> answered[i].at]
  BY DEF Resent
<1> HIDE DEF Resent
<1> QED
  BY <1>1, <1>3, <1>4, <1>5

LEMMA TypeStep == TypeOK /\ [Next]_vars => TypeOK'
<1> SUFFICES ASSUME TypeOK, [Next]_vars PROVE TypeOK'
  OBVIOUS
<1> SUFFICES (clock \in Nat /\ ServiceTyped /\ QueuesTyped /\ HistoryTyped /\ LeasesTyped)'
  BY DEF TypeOK, ServiceTyped, QueuesTyped, HistoryTyped, LeasesTyped
<1> DEFINE Goal == clock \in Nat /\ ServiceTyped /\ QueuesTyped /\ HistoryTyped /\ LeasesTyped
<1>0. Goal
  BY TypedParts
<1>c. UNCHANGED clock => clock' \in Nat
  BY <1>0
<1>s. UNCHANGED serviceVars => ServiceTyped'
  BY <1>0 DEF ServiceTyped, serviceVars
<1>q. UNCHANGED <<pending, answered>> => QueuesTyped'
  BY <1>0 DEF QueuesTyped
<1>h. UNCHANGED <<closedAt, falseReject, erred>> /\ faults' \in {faults, faults + 1} => HistoryTyped'
  BY <1>0 DEF HistoryTyped
<1>l. UNCHANGED leases => LeasesTyped'
  BY <1>0 DEF LeasesTyped
<1>1. ASSUME Execute PROVE Goal'
  <2>1. Head(pending) \in Script /\ Tail(pending) \in Seq(Script)
    BY <1>1, HeadPending DEF Execute
  <2>2. leases' \in [Conns -> Nat]
    BY <1>1, <2>1, EffectTyped DEF Execute
  <2>3. answered' \in Seq(Reply)
    BY <1>1, <2>1, AnswerTyped DEF Execute
  <2>4. falseReject' \in BOOLEAN
    BY <1>1, <1>0 DEF Execute, HistoryTyped
  <2>5. HistoryTyped'
    BY <1>1, <1>0, <2>4 DEF Execute, HistoryTyped
  <2>6. QueuesTyped' /\ LeasesTyped'
    BY <1>1, <2>1, <2>2, <2>3 DEF Execute, QueuesTyped, LeasesTyped
  <2> QED
    BY <1>1, <1>c, <1>s, <2>5, <2>6 DEF Execute
<1>2. ASSUME ExecuteError PROVE Goal'
  <2>1. Head(pending) \in Script /\ Tail(pending) \in Seq(Script)
    BY <1>2, HeadPending DEF ExecuteError
  <2>2. answered' \in Seq(Reply)
    BY <1>2, <2>1, AnswerTyped DEF ExecuteError
  <2>3. QueuesTyped'
    BY <1>2, <2>1, <2>2 DEF ExecuteError, QueuesTyped
  <2>4. erred' \subseteq Conns
    BY <1>2, <1>0, <2>1 DEF ExecuteError, HistoryTyped, Script
  <2>5. HistoryTyped'
    BY <1>2, <1>0, <2>4 DEF ExecuteError, HistoryTyped
  <2> QED
    BY <1>2, <1>c, <1>s, <1>l, <2>3, <2>5 DEF ExecuteError
<1>3. ASSUME ConnectionLost PROVE Goal'
  <2>1. pending' = Resent \o pending /\ answered' = <<>>
    BY <1>3 DEF ConnectionLost, Resent
  <2>2. QueuesTyped'
    BY <2>1, ResentTyped DEF QueuesTyped
  <2> QED
    BY <1>3, <1>c, <1>s, <1>h, <1>l, <2>2 DEF ConnectionLost
<1>4. ASSUME NEW c \in Conns, RequestOpen(c) PROVE Goal'
  <2>1. ServiceTyped'
    BY <1>4, <1>0 DEF RequestOpen, ServiceTyped, Phases
  <2>2. Send("acquire", c) \in Seq(Script)
    BY SendTyped DEF Scripts
  <2>3. QueuesTyped'
    BY <1>4, <1>0, <2>2 DEF RequestOpen, QueuesTyped
  <2> QED
    BY <1>4, <1>c, <1>h, <1>l, <2>1, <2>3 DEF RequestOpen, historyVars
<1>5. ASSUME AcquireReply PROVE Goal'
  <2>1. /\ Head(answered) \in Reply /\ Head(answered).conn \in Conns
        /\ Tail(answered) \in Seq(Reply)
    BY <1>5, HeadAnswered DEF AcquireReply, NextReply
  <2>2. PICK c \in Conns : c = Head(answered).conn
    BY <2>1
  <2>3. \/ /\ phase' = [phase EXCEPT ![c] = "registering"]
           /\ response' = [response EXCEPT ![c] = IF @ = "closed" THEN @ ELSE "live"]
           /\ lastBeat' = [lastBeat EXCEPT ![c] = clock]
           /\ active' = active + 1
        \/ /\ phase' = [phase EXCEPT ![c] = "refused"]
           /\ UNCHANGED <<response, lastBeat, active>>
    BY <1>5, <2>2 DEF AcquireReply
  <2>4. phase' \in [Conns -> Phases] /\ active' \in Nat
    BY <1>0, <2>3 DEF ServiceTyped, Phases
  <2>5. response' \in [Conns -> {"none", "live", "ended", "closed"}]
    BY <1>0, <2>3 DEF ServiceTyped
  <2>6. lastBeat' \in [Conns -> Nat]
    BY <1>0, <2>3 DEF ServiceTyped
  <2>7. ServiceTyped'
    BY <1>5, <1>0, <2>4, <2>5, <2>6 DEF AcquireReply, ServiceTyped
  <2>8. QueuesTyped'
    BY <1>5, <1>0, <2>1 DEF AcquireReply, QueuesTyped
  <2> QED
    BY <1>5, <1>c, <1>h, <1>l, <2>7, <2>8 DEF AcquireReply, historyVars
<1>6. ASSUME NEW c \in Conns, Registered(c) \/ BrokerCloses(c) PROVE Goal'
  <2>1. ServiceTyped'
    BY <1>6, <1>0 DEF Registered, BrokerCloses, EndResponse, ServiceTyped, Phases
  <2> QED
    BY <1>6, <1>c, <1>q, <1>h, <1>l, <2>1 DEF Registered, BrokerCloses, redisVars, historyVars
<1>7. ASSUME NEW c \in Conns, RegisterFails(c) PROVE Goal'
  <2>1. /\ released' \in [Conns -> BOOLEAN] /\ active' \in Nat /\ pending' \in Seq(Script)
    BY <1>7, ReleaseTyped DEF RegisterFails
  <2>2. /\ phase' \in [Conns -> Phases]
        /\ response' \in [Conns -> {"none", "live", "ended", "closed"}]
    BY <1>7, <1>0 DEF RegisterFails, EndResponse, ServiceTyped, Phases
  <2>3. ServiceTyped' /\ QueuesTyped'
    BY <1>7, <1>0, <2>1, <2>2 DEF RegisterFails, ServiceTyped, QueuesTyped
  <2> QED
    BY <1>7, <1>c, <1>h, <1>l, <2>3 DEF RegisterFails, historyVars
<1>8. ASSUME NEW c \in Conns, ResponseClose(c) PROVE Goal'
  <2>1. /\ released' \in [Conns -> BOOLEAN] /\ active' \in Nat /\ pending' \in Seq(Script)
    <3>1. CASE ReleaseQuota(c)
      BY <3>1, ReleaseTyped
    <3>2. CASE UNCHANGED <<released, active, pending>>
      BY <3>2, <1>0 DEF ServiceTyped, QueuesTyped
    <3> QED
      BY <1>8, <3>1, <3>2 DEF ResponseClose
  <2>2. response' \in [Conns -> {"none", "live", "ended", "closed"}]
    BY <1>8, <1>0 DEF ResponseClose, ServiceTyped
  <2>3. ServiceTyped' /\ QueuesTyped'
    BY <1>8, <1>0, <2>1, <2>2 DEF ResponseClose, ServiceTyped, QueuesTyped
  <2>4. HistoryTyped'
    BY <1>8, <1>0 DEF ResponseClose, HistoryTyped
  <2> QED
    BY <1>8, <1>c, <1>l, <2>3, <2>4 DEF ResponseClose
<1>9. ASSUME NEW c \in Conns, Heartbeat(c) PROVE Goal'
  <2>1. ServiceTyped'
    BY <1>9, <1>0 DEF Heartbeat, ServiceTyped
  <2>2. Send("refresh", c) \in Seq(Script)
    BY SendTyped DEF Scripts
  <2>3. QueuesTyped'
    BY <1>9, <1>0, <2>2 DEF Heartbeat, QueuesTyped
  <2> QED
    BY <1>9, <1>c, <1>h, <1>l, <2>1, <2>3 DEF Heartbeat, historyVars
<1>10. ASSUME RefreshReply PROVE Goal'
  <2>1. /\ Head(answered) \in Reply /\ Head(answered).conn \in Conns
        /\ Tail(answered) \in Seq(Reply)
    BY <1>10, HeadAnswered DEF RefreshReply, NextReply
  <2>2. PICK c \in Conns : c = Head(answered).conn
    BY <2>1
  <2>3. \/ UNCHANGED <<released, active, pending, response>>
        \/ ReleaseQuota(c) /\ EndResponse(c)
    BY <1>10, <2>2 DEF RefreshReply
  <2>4. /\ released' \in [Conns -> BOOLEAN] /\ active' \in Nat /\ pending' \in Seq(Script)
    <3>1. CASE ReleaseQuota(c)
      BY <3>1, ReleaseTyped
    <3>2. CASE UNCHANGED <<released, active, pending>>
      BY <3>2, <1>0 DEF ServiceTyped, QueuesTyped
    <3> QED
      BY <2>3, <3>1, <3>2
  <2>5. response' \in [Conns -> {"none", "live", "ended", "closed"}]
    BY <1>0, <2>3 DEF EndResponse, ServiceTyped
  <2>6. ServiceTyped'
    BY <1>10, <1>0, <2>4, <2>5 DEF RefreshReply, ServiceTyped
  <2>7. QueuesTyped'
    BY <1>10, <1>0, <2>1, <2>4 DEF RefreshReply, QueuesTyped
  <2> QED
    BY <1>10, <1>c, <1>h, <1>l, <2>6, <2>7 DEF RefreshReply, historyVars
<1>11. ASSUME ReleaseReply PROVE Goal'
  <2>1. Tail(answered) \in Seq(Reply)
    BY <1>11, HeadAnswered DEF ReleaseReply, NextReply
  <2>2. QueuesTyped'
    BY <1>11, <1>0, <2>1 DEF ReleaseReply, QueuesTyped
  <2> QED
    BY <1>11, <1>c, <1>s, <1>h, <1>l, <2>2 DEF ReleaseReply, historyVars
<1>12. ASSUME Tick PROVE Goal'
  <2>1. clock' \in Nat
    BY <1>12, <1>0 DEF Tick
  <2> QED
    BY <1>12, <2>1, <1>s, <1>q, <1>h, <1>l DEF Tick, redisVars, historyVars
<1>13. ASSUME Restart PROVE Goal'
  <2>1. ServiceTyped'
    BY <1>13, <1>0 DEF Restart, ServiceTyped, Phases
  <2>2. closedAt' \in [Conns -> Nat]
    BY <1>13, <1>0 DEF Restart, HistoryTyped
  <2>3. HistoryTyped'
    BY <1>13, <1>0, <2>2 DEF Restart, HistoryTyped
  <2>4. QueuesTyped' /\ LeasesTyped'
    BY <1>13 DEF Restart, QueuesTyped, LeasesTyped
  <2> QED
    BY <1>13, <1>c, <2>1, <2>3, <2>4 DEF Restart
<1>14. ASSUME UNCHANGED vars PROVE Goal'
  BY <1>14, <1>c, <1>s, <1>q, <1>h, <1>l DEF vars, redisVars, historyVars
<1> QED
  BY <1>1, <1>2, <1>3, <1>4, <1>5, <1>6, <1>7, <1>8, <1>9, <1>10, <1>11, <1>12, <1>13, <1>14
  DEF Next

\* The quota's state is well typed for any connections, limit and times: the
\* count never falls below zero, and every script names a connection.
THEOREM TypeCorrect == Spec => []TypeOK
BY TypeInit, TypeStep, PTL DEF Spec

-----------------------------------------------------------------------------
(* The limit in Redis.                                                     *)

LEMMA MembersFinite ==
    ASSUME NEW l PROVE IsFiniteSet(Members(l)) /\ Cardinality(Members(l)) \in Nat
<1>1. IsFiniteSet(Members(l))
  BY QuotaAssumption, FS_Subset DEF Members
<1> QED
  BY <1>1, FS_CardinalityType

LEMMA FewerMembers ==
    ASSUME NEW k, NEW l, Members(k) \subseteq Members(l)
    PROVE  Cardinality(Members(k)) <= Cardinality(Members(l))
BY MembersFinite, FS_Subset

\* No script lets the leases exceed the limit.
LEMMA EffectWithinQuota ==
    ASSUME TypeOK, LeasesWithinQuota, NEW s \in Script
    PROVE  Cardinality(Members(Effect(s))) <= MaxConns
<1>1. s.at \in Nat /\ s.conn \in Conns /\ s.op \in Scripts
  BY DEF Script
<1>2. /\ Pruned(s.at) \in [Conns -> Nat]
      /\ Members(Pruned(s.at)) \subseteq Members(leases)
  BY DEF Pruned, TypeOK, Members
<1>m. MaxConns \in Nat /\ \A l : Cardinality(Members(l)) \in Nat
  BY QuotaAssumption, MembersFinite
<1>3. Cardinality(Members(Pruned(s.at))) <= MaxConns
  BY <1>2, <1>m, FewerMembers DEF LeasesWithinQuota
<1>4. Cardinality(Members(AcquireEffect(s))) <= MaxConns
  <2>1. CASE AcquireGrants(s)
    <3>1. Members(AcquireEffect(s)) \subseteq Members(Pruned(s.at)) \cup {s.conn}
      BY <1>1, <1>2, <2>1 DEF AcquireEffect, Members
    <3>2. /\ IsFiniteSet(Members(Pruned(s.at)) \cup {s.conn})
          /\ Cardinality(Members(Pruned(s.at)) \cup {s.conn})
               <= Cardinality(Members(Pruned(s.at))) + 1
      BY <1>m, MembersFinite, FS_AddElement
    <3>3. Cardinality(Members(AcquireEffect(s)))
            <= Cardinality(Members(Pruned(s.at)) \cup {s.conn})
      BY <3>1, <3>2, FS_Subset
    <3>4. Cardinality(Members(Pruned(s.at)) \cup {s.conn}) \in Nat
      BY <3>2, FS_CardinalityType
    <3>5. Cardinality(Members(Pruned(s.at))) < MaxConns
      BY <2>1 DEF AcquireGrants
    <3> QED
      BY <1>m, <3>2, <3>3, <3>4, <3>5
  <2>2. CASE ~AcquireGrants(s)
    BY <1>3, <2>2 DEF AcquireEffect
  <2> QED
    BY <2>1, <2>2
<1>5. Cardinality(Members(RefreshEffect(s))) <= MaxConns
  <2>1. Members(RefreshEffect(s)) \subseteq Members(Pruned(s.at))
    BY <1>1, <1>2 DEF RefreshEffect, RefreshGrants, Members
  <2> QED
    BY <1>3, <1>m, <2>1, FewerMembers
<1>6. Cardinality(Members(ReleaseEffect(s))) <= MaxConns
  <2>1. Members(ReleaseEffect(s)) \subseteq Members(leases)
    BY <1>1 DEF ReleaseEffect, Members, TypeOK
  <2> QED
    BY <1>m, <2>1, FewerMembers DEF LeasesWithinQuota
<1> QED
  BY <1>1, <1>4, <1>5, <1>6 DEF Effect, Scripts

LEMMA QuotaStep == TypeOK /\ LeasesWithinQuota /\ [Next]_vars => LeasesWithinQuota'
<1> SUFFICES ASSUME TypeOK, LeasesWithinQuota, [Next]_vars PROVE LeasesWithinQuota'
  OBVIOUS
<1>1. ASSUME Execute PROVE LeasesWithinQuota'
  <2>1. Head(pending) \in Script /\ leases' = Effect(Head(pending))
    BY <1>1, HeadPending DEF Execute
  <2> QED
    BY <2>1, EffectWithinQuota DEF LeasesWithinQuota, Members
<1>2. ASSUME Restart PROVE LeasesWithinQuota'
  <2>1. Members(leases') = {}
    BY <1>2 DEF Restart, Members
  <2>2. Cardinality(Members(leases')) = 0
    BY <2>1, FS_EmptySet
  <2> QED
    BY <2>2, QuotaAssumption DEF LeasesWithinQuota, Members
<1>3. ASSUME UNCHANGED leases PROVE LeasesWithinQuota'
  BY <1>3 DEF LeasesWithinQuota, Members
<1> QED
  BY <1>1, <1>2, <1>3
  DEF Next, ExecuteError, ConnectionLost, AcquireReply, RefreshReply, ReleaseReply, RequestOpen,
      Registered, RegisterFails, BrokerCloses, ResponseClose, Heartbeat, Tick, vars, redisVars

\* Redis never holds more leases of a key than its limit, for any limit and
\* any scripts that are late, lost and sent again, or run for nobody.
THEOREM LeasesWithinQuotaAlways == Spec => []LeasesWithinQuota
<1>1. Init => LeasesWithinQuota
  <2> SUFFICES ASSUME Init PROVE LeasesWithinQuota
    OBVIOUS
  <2>1. Members(leases) = {}
    BY DEF Init, Members
  <2> QED
    BY <2>1, FS_EmptySet, QuotaAssumption DEF LeasesWithinQuota
<1> QED
  BY <1>1, QuotaStep, TypeCorrect, PTL DEF Spec

-----------------------------------------------------------------------------
(* The scripts of the API, answered or not, in the order they were sent.   *)

Outstanding == Len(answered) + Len(pending)
Outgoing(i) ==
    IF i <= Len(answered)
    THEN [op |-> answered[i].op, conn |-> answered[i].conn, at |-> answered[i].at]
    ELSE pending[i - Len(answered)]

\* A request sends one acquire, and its reply is still to come while the
\* request waits; a heartbeat fires for a connection that holds quota, and
\* nobody gives back what was not taken.
QueueInv ==
    /\ \A i, j \in 1..Outstanding :
          /\ Outgoing(i).op = "acquire" /\ Outgoing(j).op = "acquire"
          /\ Outgoing(i).conn = Outgoing(j).conn
          => i = j
    /\ \A i \in 1..Outstanding, c \in Conns :
          Outgoing(i).conn = c =>
             /\ Outgoing(i).op = "acquire" => phase[c] = "acquiring"
             /\ Outgoing(i).op = "refresh" => Admitted(c) \/ released[c]
    /\ \A c \in Conns : phase[c] \in {"idle", "acquiring"} => ~released[c]

LEMMA OutgoingTyped ==
    ASSUME TypeOK
    PROVE  /\ Len(answered) \in Nat /\ Len(pending) \in Nat /\ Outstanding \in Nat
           /\ \A i \in 1..Outstanding : Outgoing(i) \in Script /\ Outgoing(i).conn \in Conns
           /\ answered # <<>> =>
                /\ 1 \in 1..Outstanding
                /\ Outgoing(1).op = Head(answered).op
                /\ Outgoing(1).conn = Head(answered).conn
           /\ pending # <<>> =>
                /\ Len(answered) + 1 \in 1..Outstanding
                /\ Outgoing(Len(answered) + 1) = Head(pending)
<1>1. /\ Len(answered) \in Nat /\ Len(pending) \in Nat
      /\ pending \in Seq(Script) /\ answered \in Seq(Reply)
  BY DEF TypeOK
<1>2. ASSUME NEW i \in 1..Outstanding PROVE Outgoing(i) \in Script
  <2>1. CASE i <= Len(answered)
    <3>1. answered[i] \in Reply
      BY <1>1, <1>2, <2>1 DEF Outstanding
    <3> QED
      BY <2>1, <3>1 DEF Outgoing, Script, Reply
  <2>2. CASE ~(i <= Len(answered))
    <3>1. i - Len(answered) \in 1..Len(pending)
      BY <1>1, <1>2, <2>2 DEF Outstanding
    <3> QED
      BY <1>1, <2>2, <3>1 DEF Outgoing
  <2> QED
    BY <2>1, <2>2
<1>3. Outstanding \in Nat
  BY <1>1 DEF Outstanding
<1>4. \A i \in 1..Outstanding : Outgoing(i).conn \in Conns
  BY <1>2 DEF Script
<1>5. ASSUME answered # <<>>
      PROVE  /\ 1 \in 1..Outstanding
             /\ Outgoing(1).op = Head(answered).op /\ Outgoing(1).conn = Head(answered).conn
  <2>1. Len(answered) >= 1 /\ Head(answered) = answered[1]
    BY <1>1, <1>5
  <2> QED
    BY <1>1, <2>1 DEF Outstanding, Outgoing
<1>6. ASSUME pending # <<>>
      PROVE  /\ Len(answered) + 1 \in 1..Outstanding
             /\ Outgoing(Len(answered) + 1) = Head(pending)
  <2>1. Len(pending) >= 1 /\ Head(pending) = pending[1]
    BY <1>1, <1>6
  <2>2. ~(Len(answered) + 1 <= Len(answered)) /\ Len(answered) + 1 - Len(answered) = 1
    BY <1>1
  <2> QED
    BY <1>1, <2>1, <2>2 DEF Outstanding, Outgoing
<1> QED
  BY <1>1, <1>2, <1>3, <1>4, <1>5, <1>6

\* Running a script, with or without an error, and sending scripts again move
\* the line between the two queues and nothing else.
LEMMA SameOutgoing ==
    ASSUME TypeOK, TypeOK', Execute \/ ExecuteError \/ ConnectionLost
    PROVE  /\ Outstanding' = Outstanding
           /\ \A i \in 1..Outstanding : Outgoing(i)' = Outgoing(i)
<1>t. /\ Len(answered) \in Nat /\ Len(pending) \in Nat
      /\ pending \in Seq(Script) /\ answered \in Seq(Reply)
  BY DEF TypeOK
<1>1. ASSUME NEW result \in {"yes", "no", "error"}, pending # <<>>,
             answered' = Answer(Head(pending), result), pending' = Tail(pending)
      PROVE  /\ Outstanding' = Outstanding
             /\ \A i \in 1..Outstanding : Outgoing(i)' = Outgoing(i)
  <2>1. /\ Len(answered') = Len(answered) + 1
        /\ \A i \in 1..Len(answered) : answered'[i] = answered[i]
        /\ answered'[Len(answered) + 1] =
              [op |-> Head(pending).op, conn |-> Head(pending).conn,
               at |-> Head(pending).at, result |-> result]
    <3>1. [op |-> Head(pending).op, conn |-> Head(pending).conn,
           at |-> Head(pending).at, result |-> result] \in Reply
      BY <1>1, HeadPending DEF Script, Reply
    <3> QED
      BY <1>1, <1>t, <3>1 DEF Answer
  <2>2. /\ Len(pending') = Len(pending) - 1 /\ Len(pending) >= 1 /\ Head(pending) = pending[1]
        /\ \A i \in 1..Len(pending') : pending'[i] = pending[i + 1]
    BY <1>1, <1>t
  <2>3. Head(pending) = [op |-> Head(pending).op, conn |-> Head(pending).conn,
                         at |-> Head(pending).at]
    BY <1>1, HeadPending DEF Script
  <2>4. Outstanding' = Outstanding
    BY <1>t, <2>1, <2>2 DEF Outstanding
  <2>5. ASSUME NEW i \in 1..Outstanding PROVE Outgoing(i)' = Outgoing(i)
    <3>1. CASE i <= Len(answered)
      BY <1>t, <2>1, <3>1 DEF Outgoing
    <3>2. CASE i = Len(answered) + 1
      <4>1. Outgoing(i) = Head(pending)
        BY <1>1, <3>2, OutgoingTyped
      <4>2. Outgoing(i)' = Head(pending)
        BY <1>t, <2>1, <2>3, <3>2 DEF Outgoing
      <4> QED
        BY <4>1, <4>2
    <3>3. CASE i > Len(answered) + 1
      <4>1. /\ i - Len(answered') = i - Len(answered) - 1
            /\ i - Len(answered) - 1 \in 1..Len(pending')
            /\ i - Len(answered) - 1 + 1 = i - Len(answered)
            /\ ~(i <= Len(answered)) /\ ~(i <= Len(answered'))
        BY <1>t, <2>1, <2>2, <3>3 DEF Outstanding
      <4>2. pending'[i - Len(answered) - 1] = pending[i - Len(answered)]
        BY <2>2, <4>1
      <4> QED
        BY <4>1, <4>2 DEF Outgoing
    <3> QED
      BY <1>t, <3>1, <3>2, <3>3
  <2> QED
    BY <2>4, <2>5
<1>2. ASSUME ConnectionLost
      PROVE  /\ Outstanding' = Outstanding
             /\ \A i \in 1..Outstanding : Outgoing(i)' = Outgoing(i)
  <2>1. pending' = Resent \o pending /\ answered' = <<>> /\ Len(answered') = 0
    BY <1>2 DEF ConnectionLost, Resent
  <2>2. Outstanding' = Outstanding
    BY <1>t, <2>1, ResentTyped DEF Outstanding
  <2>3. ASSUME NEW i \in 1..Outstanding PROVE Outgoing(i)' = Outgoing(i)
    <3>1. Outgoing(i)' = pending'[i]
      <4>1. ~(i <= 0) /\ i - 0 = i
        OBVIOUS
      <4> QED
        BY <2>1, <4>1 DEF Outgoing
    <3>2. CASE i <= Len(answered)
      <4>1. i \in 1..Len(answered)
        BY <1>t, <3>2 DEF Outstanding
      <4> QED
        BY <2>1, <3>1, <3>2, <4>1, ResentTyped DEF Outgoing
    <3>3. CASE ~(i <= Len(answered))
      <4>1. /\ i - Len(answered) \in 1..Len(pending)
            /\ Len(answered) + (i - Len(answered)) = i
        BY <1>t, <3>3 DEF Outstanding
      <4> QED
        BY <2>1, <3>1, <3>3, <4>1, ResentTyped DEF Outgoing
    <3> QED
      BY <3>2, <3>3
  <2> QED
    BY <2>2, <2>3
<1>3. CASE Execute
  <2>1. PICK result \in {"yes", "no", "error"} : answered' = Answer(Head(pending), result)
    BY <1>3 DEF Execute
  <2>2. pending # <<>> /\ pending' = Tail(pending)
    BY <1>3 DEF Execute
  <2> QED
    BY <1>1, <2>1, <2>2
<1>4. CASE ExecuteError
  BY <1>1, <1>4 DEF ExecuteError
<1> QED
  BY <1>2, <1>3, <1>4

\* The other steps drop the oldest script when its reply is handled, and may
\* add one at the end.
LEMMA DropAndAdd ==
    ASSUME TypeOK, NEW k \in {0, 1},
           \/ k = 0 /\ UNCHANGED answered
           \/ k = 1 /\ answered # <<>> /\ answered' = Tail(answered),
           \/ UNCHANGED pending
           \/ \E op \in Scripts, c \in Conns : pending' = Send(op, c)
    PROVE  \/ /\ UNCHANGED pending
              /\ Outstanding' = Outstanding - k
              /\ \A i \in 1..Outstanding' : i + k \in 1..Outstanding /\ Outgoing(i)' = Outgoing(i + k)
           \/ \E op \in Scripts, c \in Conns :
              /\ pending' = Send(op, c)
              /\ Outstanding' = Outstanding - k + 1
              /\ \A i \in 1..(Outstanding - k) :
                    i + k \in 1..Outstanding /\ Outgoing(i)' = Outgoing(i + k)
              /\ \A i \in Nat : i = Outstanding - k + 1 =>
                    Outgoing(i)' = [op |-> op, conn |-> c, at |-> clock]
<1>t. /\ Len(answered) \in Nat /\ Len(pending) \in Nat
      /\ pending \in Seq(Script) /\ answered \in Seq(Reply)
  BY DEF TypeOK
<1>1. /\ Len(answered') = Len(answered) - k /\ Len(answered) >= k
      /\ \A i \in 1..Len(answered') : answered'[i] = answered[i + k] /\ i + k <= Len(answered)
  <2>1. CASE k = 0 /\ UNCHANGED answered
    BY <1>t, <2>1
  <2>2. CASE k = 1 /\ answered # <<>> /\ answered' = Tail(answered)
    BY <1>t, <2>2
  <2> QED
    BY <2>1, <2>2
<1>2. ASSUME NEW i \in 1..(Outstanding - k),
             \A j \in 1..Len(pending) : pending'[j] = pending[j]
      PROVE  i + k \in 1..Outstanding /\ Outgoing(i)' = Outgoing(i + k)
  <2>0. i + k \in 1..Outstanding
    BY <1>t DEF Outstanding
  <2>1. CASE i <= Len(answered')
    <3>1. i \in 1..Len(answered') /\ i + k <= Len(answered)
      BY <1>t, <1>1, <2>1
    <3> QED
      BY <1>1, <2>0, <2>1, <3>1 DEF Outgoing
  <2>2. CASE ~(i <= Len(answered'))
    <3>1. /\ i - Len(answered') = i + k - Len(answered)
          /\ i + k - Len(answered) \in 1..Len(pending)
          /\ ~(i + k <= Len(answered))
      BY <1>t, <1>1, <2>2 DEF Outstanding
    <3> QED
      BY <1>2, <2>0, <2>2, <3>1 DEF Outgoing
  <2> QED
    BY <2>1, <2>2
<1>3. CASE UNCHANGED pending
  <2>1. Outstanding' = Outstanding - k
    BY <1>t, <1>1, <1>3 DEF Outstanding
  <2> QED
    BY <1>2, <1>3, <2>1
<1>4. ASSUME NEW op \in Scripts, NEW c \in Conns, pending' = Send(op, c)
      PROVE  /\ Outstanding' = Outstanding - k + 1
             /\ \A i \in 1..(Outstanding - k) :
                   i + k \in 1..Outstanding /\ Outgoing(i)' = Outgoing(i + k)
             /\ \A i \in Nat : i = Outstanding - k + 1 =>
                   Outgoing(i)' = [op |-> op, conn |-> c, at |-> clock]
  <2>1. /\ Len(pending') = Len(pending) + 1
        /\ \A i \in 1..Len(pending) : pending'[i] = pending[i]
        /\ pending'[Len(pending) + 1] = [op |-> op, conn |-> c, at |-> clock]
    BY <1>4, SendTyped
  <2>2. Outstanding' = Outstanding - k + 1
    BY <1>t, <1>1, <2>1 DEF Outstanding
  <2>3. ASSUME NEW i \in Nat, i = Outstanding - k + 1
        PROVE  Outgoing(i)' = [op |-> op, conn |-> c, at |-> clock]
    <3>1. i - Len(answered') = Len(pending) + 1 /\ ~(i <= Len(answered'))
      BY <1>t, <1>1, <2>3 DEF Outstanding
    <3> QED
      BY <2>1, <3>1 DEF Outgoing
  <2> QED
    BY <1>2, <2>1, <2>2, <2>3
<1> QED
  BY <1>3, <1>4

\* A step that only passes scripts on, or sends a release, keeps what is known
\* of the scripts, if it keeps the phases and the quota of their connections.
LEMMA QueueKept ==
    ASSUME TypeOK, QueueInv, NEW k \in {0, 1},
           \A i \in 1..Outstanding' :
              \/ i + k \in 1..Outstanding /\ Outgoing(i)' = Outgoing(i + k)
              \/ Outgoing(i)'.op = "release",
           \A i \in 1..Outstanding :
              i > k /\ Outgoing(i).op = "acquire" =>
                 phase'[Outgoing(i).conn] = phase[Outgoing(i).conn],
           \A c \in Conns : Admitted(c) \/ released[c] => Admitted(c)' \/ released'[c],
           \A c \in Conns : phase'[c] \in {"idle", "acquiring"} => ~released'[c]
    PROVE  QueueInv'
<1>t. Outstanding \in Nat
  BY OutgoingTyped
<1>1. ASSUME NEW i \in 1..Outstanding', NEW j \in 1..Outstanding',
             Outgoing(i)'.op = "acquire", Outgoing(j)'.op = "acquire",
             Outgoing(i)'.conn = Outgoing(j)'.conn
      PROVE  i = j
  <2>1. /\ i + k \in 1..Outstanding /\ Outgoing(i)' = Outgoing(i + k)
        /\ j + k \in 1..Outstanding /\ Outgoing(j)' = Outgoing(j + k)
    BY <1>1
  <2>2. i + k = j + k
    BY <1>1, <2>1 DEF QueueInv
  <2> QED
    BY <2>2
<1>2. ASSUME NEW i \in 1..Outstanding', NEW c \in Conns,
             Outgoing(i)'.conn = c, Outgoing(i)'.op = "acquire"
      PROVE  phase'[c] = "acquiring"
  <2>1. i + k \in 1..Outstanding /\ Outgoing(i)' = Outgoing(i + k) /\ i + k > k
    BY <1>2
  <2>2. phase[c] = "acquiring"
    BY <1>2, <2>1 DEF QueueInv
  <2> QED
    BY <1>2, <2>1, <2>2
<1>3. ASSUME NEW i \in 1..Outstanding', NEW c \in Conns,
             Outgoing(i)'.conn = c, Outgoing(i)'.op = "refresh"
      PROVE  Admitted(c)' \/ released'[c]
  <2>1. i + k \in 1..Outstanding /\ Outgoing(i)' = Outgoing(i + k)
    BY <1>3
  <2>2. Admitted(c) \/ released[c]
    BY <1>3, <2>1 DEF QueueInv
  <2> QED
    BY <2>2
<1> QED
  BY <1>1, <1>2, <1>3 DEF QueueInv

\* No step of a request, a heartbeat or a reply breaks the queue's invariant.
LEMMA QueueStep == TypeOK /\ TypeOK' /\ QueueInv /\ [Next]_vars => QueueInv'
<1> SUFFICES ASSUME TypeOK, TypeOK', QueueInv, [Next]_vars PROVE QueueInv'
  OBVIOUS
<1>t. Outstanding \in Nat /\ \A i \in 1..Outstanding : Outgoing(i).conn \in Conns
  BY OutgoingTyped
<1>z. \A i \in Nat : i + 0 = i /\ i - 0 = i
  OBVIOUS
<1>p. \A c \in Conns : phase[c] \in {"idle", "acquiring"} => ~released[c]
  BY DEF QueueInv
<1>k. ASSUME NEW k \in {0, 1},
             \/ k = 0 /\ UNCHANGED answered
             \/ k = 1 /\ answered # <<>> /\ answered' = Tail(answered),
             UNCHANGED pending \/ \E c \in Conns : pending' = Send("release", c)
      PROVE  \A i \in 1..Outstanding' :
                \/ i + k \in 1..Outstanding /\ Outgoing(i)' = Outgoing(i + k)
                \/ Outgoing(i)'.op = "release"
  <2>1. CASE UNCHANGED pending
    BY <1>k, <2>1, SendNew, DropAndAdd
  <2>2. CASE \E c \in Conns : pending' = Send("release", c)
    <3>1. PICK c \in Conns : pending' = Send("release", c)
      BY <2>2
    <3>2. CASE UNCHANGED pending
      BY <2>1, <3>2
    <3>3. CASE pending' # pending
      <4>1. PICK op \in Scripts, d \in Conns :
               /\ pending' = Send(op, d)
               /\ Outstanding' = Outstanding - k + 1
               /\ \A i \in 1..(Outstanding - k) :
                     i + k \in 1..Outstanding /\ Outgoing(i)' = Outgoing(i + k)
               /\ \A i \in Nat : i = Outstanding - k + 1 =>
                     Outgoing(i)' = [op |-> op, conn |-> d, at |-> clock]
        BY <1>k, <3>1, <3>3, DropAndAdd DEF Scripts
      <4>2. op = "release"
        <5>1. /\ Send(op, d)[Len(pending) + 1] = [op |-> op, conn |-> d, at |-> clock]
              /\ Send("release", c)[Len(pending) + 1] = [op |-> "release", conn |-> c, at |-> clock]
          BY SendTyped DEF Scripts
        <5>2. [op |-> op, conn |-> d, at |-> clock] = [op |-> "release", conn |-> c, at |-> clock]
          BY <3>1, <4>1, <5>1
        <5> QED
          BY <5>2
      <4> SUFFICES ASSUME NEW i \in 1..Outstanding', i \notin 1..(Outstanding - k)
                   PROVE  Outgoing(i)'.op = "release"
        BY <4>1
      <4>3. i = Outstanding - k + 1 /\ i \in Nat
        BY <1>t, <4>1
      <4> QED
        BY <4>1, <4>2, <4>3
    <3> QED
      BY <3>2, <3>3
  <2> QED
    BY <1>k, <2>1, <2>2
<1>1. CASE Execute \/ ExecuteError \/ ConnectionLost
  <2>1. UNCHANGED <<phase, released>>
    BY <1>1 DEF Execute, ExecuteError, ConnectionLost, serviceVars
  <2>2. Outstanding' = Outstanding /\ \A i \in 1..Outstanding : Outgoing(i)' = Outgoing(i)
    BY <1>1, SameOutgoing
  <2> QED
    BY <2>1, <2>2 DEF QueueInv, Admitted
<1>2. ASSUME NEW c \in Conns, RequestOpen(c) PROVE QueueInv'
  <2>1. /\ phase[c] = "idle" /\ phase' = [phase EXCEPT ![c] = "acquiring"]
        /\ pending' = Send("acquire", c) /\ UNCHANGED <<answered, released>>
    BY <1>2 DEF RequestOpen
  <2>2. pending' # pending
    BY <2>1, SendNew DEF Scripts
  <2>3. PICK op \in Scripts, d \in Conns :
           /\ pending' = Send(op, d)
           /\ Outstanding' = Outstanding - 0 + 1
           /\ \A i \in 1..(Outstanding - 0) :
                 i + 0 \in 1..Outstanding /\ Outgoing(i)' = Outgoing(i + 0)
           /\ \A i \in Nat : i = Outstanding - 0 + 1 =>
                 Outgoing(i)' = [op |-> op, conn |-> d, at |-> clock]
    BY <2>1, <2>2, DropAndAdd DEF Scripts
  <2>4. op = "acquire" /\ d = c
    <3>1. /\ Send(op, d)[Len(pending) + 1] = [op |-> op, conn |-> d, at |-> clock]
          /\ Send("acquire", c)[Len(pending) + 1] = [op |-> "acquire", conn |-> c, at |-> clock]
      BY SendTyped DEF Scripts
    <3>2. [op |-> op, conn |-> d, at |-> clock] = [op |-> "acquire", conn |-> c, at |-> clock]
      BY <2>1, <2>3, <3>1
    <3> QED
      BY <3>2
  <2>5. /\ Outstanding' = Outstanding + 1
        /\ \A i \in 1..Outstanding : Outgoing(i)' = Outgoing(i)
        /\ \A i \in Nat : i = Outstanding + 1 =>
              Outgoing(i)' = [op |-> "acquire", conn |-> c, at |-> clock]
    BY <1>t, <1>z, <2>3, <2>4
  <2>6. \A i \in 1..Outstanding : Outgoing(i).op = "acquire" => Outgoing(i).conn # c
    BY <1>t, <2>1 DEF QueueInv
  <2>7. \A i \in 1..Outstanding' : i \in 1..Outstanding \/ (i = Outstanding + 1 /\ i \in Nat)
    BY <1>t, <2>5
  <2>8. ASSUME NEW i \in 1..Outstanding', NEW j \in 1..Outstanding',
               Outgoing(i)'.op = "acquire", Outgoing(j)'.op = "acquire",
               Outgoing(i)'.conn = Outgoing(j)'.conn
        PROVE  i = j
    BY <2>5, <2>6, <2>7, <2>8 DEF QueueInv
  <2>9. \A d2 \in Conns : d2 # c => phase'[d2] = phase[d2]
    BY <2>1 DEF TypeOK
  <2>10. phase'[c] = "acquiring" /\ ~Admitted(c) /\ ~released[c]
    BY <1>p, <2>1 DEF TypeOK, Admitted
  <2>11. ASSUME NEW i \in 1..Outstanding', NEW e \in Conns, Outgoing(i)'.conn = e
         PROVE  /\ Outgoing(i)'.op = "acquire" => phase'[e] = "acquiring"
                /\ Outgoing(i)'.op = "refresh" => Admitted(e)' \/ released'[e]
    <3>1. CASE i \in 1..Outstanding
      BY <2>1, <2>5, <2>9, <2>10, <2>11, <3>1 DEF QueueInv, Admitted
    <3>2. CASE i = Outstanding + 1 /\ i \in Nat
      BY <2>5, <2>10, <2>11, <3>2
    <3> QED
      BY <2>7, <3>1, <3>2
  <2>12. \A e \in Conns : phase'[e] \in {"idle", "acquiring"} => ~released'[e]
    BY <1>p, <2>1, <2>9, <2>10
  <2> QED
    BY <2>8, <2>11, <2>12 DEF QueueInv
<1>3. ASSUME AcquireReply PROVE QueueInv'
  <2>1. /\ answered # <<>> /\ Head(answered).op = "acquire" /\ answered' = Tail(answered)
        /\ UNCHANGED <<pending, released>>
    BY <1>3 DEF AcquireReply, NextReply
  <2>2. PICK c \in Conns : c = Head(answered).conn
    BY <2>1, HeadAnswered
  <2>3. 1 \in 1..Outstanding /\ Outgoing(1).op = "acquire" /\ Outgoing(1).conn = c
    BY <2>1, <2>2, OutgoingTyped
  <2>4. phase[c] = "acquiring"
    BY <2>3 DEF QueueInv
  <2>5. phase' = [phase EXCEPT ![c] = "registering"] \/ phase' = [phase EXCEPT ![c] = "refused"]
    BY <1>3, <2>2 DEF AcquireReply
  <2>6. ASSUME NEW i \in 1..Outstanding, i > 1, Outgoing(i).op = "acquire"
        PROVE  phase'[Outgoing(i).conn] = phase[Outgoing(i).conn]
    <3>1. Outgoing(i).conn # c /\ Outgoing(i).conn \in Conns
      BY <1>t, <2>3, <2>6 DEF QueueInv
    <3> QED
      BY <2>5, <3>1 DEF TypeOK
  <2>7. \A d \in Conns : Admitted(d) \/ released[d] => Admitted(d)' \/ released'[d]
    BY <2>1, <2>4, <2>5 DEF Admitted, TypeOK
  <2>8. \A d \in Conns : phase'[d] \in {"idle", "acquiring"} => ~released'[d]
    BY <1>p, <2>1, <2>5 DEF TypeOK
  <2>9. \A i \in 1..Outstanding' :
           \/ i + 1 \in 1..Outstanding /\ Outgoing(i)' = Outgoing(i + 1)
           \/ Outgoing(i)'.op = "release"
    BY <1>k, <2>1
  <2> QED
    BY <2>6, <2>7, <2>8, <2>9, QueueKept
<1>q. ASSUME NEW k \in {0, 1},
             \/ k = 0 /\ UNCHANGED answered
             \/ k = 1 /\ answered # <<>> /\ answered' = Tail(answered),
             UNCHANGED pending \/ \E c \in Conns : pending' = Send("release", c),
             \A d \in Conns : phase[d] = "acquiring" => phase'[d] = "acquiring",
             \A d \in Conns : Admitted(d) \/ released[d] => Admitted(d)' \/ released'[d],
             \A d \in Conns : phase'[d] \in {"idle", "acquiring"} => ~released'[d]
      PROVE  QueueInv'
  <2>1. \A i \in 1..Outstanding' :
           \/ i + k \in 1..Outstanding /\ Outgoing(i)' = Outgoing(i + k)
           \/ Outgoing(i)'.op = "release"
    BY <1>k, <1>q
  <2>2. \A i \in 1..Outstanding :
           i > k /\ Outgoing(i).op = "acquire" =>
              phase'[Outgoing(i).conn] = phase[Outgoing(i).conn]
    BY <1>t, <1>q DEF QueueInv
  <2> QED
    BY <1>q, <2>1, <2>2, QueueKept
<1>4. ASSUME NEW c \in Conns, Registered(c) PROVE QueueInv'
  <2>1. phase[c] = "registering" /\ phase' = [phase EXCEPT ![c] = "open"]
        /\ UNCHANGED <<released, pending, answered>>
    BY <1>4 DEF Registered, redisVars
  <2>2. \A d \in Conns : phase'[d] = IF d = c THEN "open" ELSE phase[d]
    BY <2>1 DEF TypeOK
  <2> QED
    BY <1>p, <1>q, <2>1, <2>2 DEF Admitted
<1>5. ASSUME NEW c \in Conns, RegisterFails(c) PROVE QueueInv'
  <2>1. phase[c] = "registering" /\ phase' = [phase EXCEPT ![c] = "gone"] /\ UNCHANGED answered
    BY <1>5 DEF RegisterFails
  <2>2. UNCHANGED pending \/ pending' = Send("release", c)
    BY <1>5 DEF RegisterFails, ReleaseQuota
  <2>3. \A d \in Conns : released'[d] = IF d = c THEN TRUE ELSE released[d]
    BY <1>5 DEF RegisterFails, ReleaseQuota, TypeOK
  <2>4. \A d \in Conns : phase'[d] = IF d = c THEN "gone" ELSE phase[d]
    BY <2>1 DEF TypeOK
  <2> QED
    <3>1. \A d \in Conns : phase[d] = "acquiring" => phase'[d] = "acquiring"
      BY <2>1, <2>4
    <3>2. \A d \in Conns : Admitted(d) \/ released[d] => Admitted(d)' \/ released'[d]
      BY <2>3, <2>4 DEF Admitted
    <3>3. \A d \in Conns : phase'[d] \in {"idle", "acquiring"} => ~released'[d]
      BY <1>p, <2>3, <2>4
    <3> QED
      BY <1>q, <2>1, <2>2, <3>1, <3>2, <3>3
<1>6. ASSUME NEW c \in Conns, ResponseClose(c) PROVE QueueInv'
  <2>1. UNCHANGED <<phase, answered>>
    BY <1>6 DEF ResponseClose
  <2>2. UNCHANGED pending \/ pending' = Send("release", c)
    BY <1>6 DEF ResponseClose, ReleaseQuota
  <2>3. \A d \in Conns : released'[d] = released[d] \/ (d = c /\ phase[c] = "open" /\ released'[d])
    BY <1>6 DEF ResponseClose, ReleaseQuota, TypeOK
  <2> QED
    BY <1>p, <1>q, <2>1, <2>2, <2>3 DEF Admitted
<1>7. ASSUME NEW c \in Conns, Heartbeat(c) PROVE QueueInv'
  <2>1. /\ c \in Holding /\ pending' = Send("refresh", c)
        /\ UNCHANGED <<answered, released, phase>>
    BY <1>7 DEF Heartbeat
  <2>2. pending' # pending
    BY <2>1, SendNew DEF Scripts
  <2>3. PICK op \in Scripts, d \in Conns :
           /\ pending' = Send(op, d)
           /\ Outstanding' = Outstanding - 0 + 1
           /\ \A i \in 1..(Outstanding - 0) :
                 i + 0 \in 1..Outstanding /\ Outgoing(i)' = Outgoing(i + 0)
           /\ \A i \in Nat : i = Outstanding - 0 + 1 =>
                 Outgoing(i)' = [op |-> op, conn |-> d, at |-> clock]
    BY <2>1, <2>2, DropAndAdd DEF Scripts
  <2>4. op = "refresh" /\ d = c
    <3>1. /\ Send(op, d)[Len(pending) + 1] = [op |-> op, conn |-> d, at |-> clock]
          /\ Send("refresh", c)[Len(pending) + 1] = [op |-> "refresh", conn |-> c, at |-> clock]
      BY SendTyped DEF Scripts
    <3>2. [op |-> op, conn |-> d, at |-> clock] = [op |-> "refresh", conn |-> c, at |-> clock]
      BY <2>1, <2>3, <3>1
    <3> QED
      BY <3>2
  <2>5. /\ Outstanding' = Outstanding + 1
        /\ \A i \in 1..Outstanding : Outgoing(i)' = Outgoing(i)
        /\ \A i \in Nat : i = Outstanding + 1 =>
              Outgoing(i)' = [op |-> "refresh", conn |-> c, at |-> clock]
    BY <1>t, <1>z, <2>3, <2>4
  <2>6. \A i \in 1..Outstanding' : i \in 1..Outstanding \/ (i = Outstanding + 1 /\ i \in Nat)
    BY <1>t, <2>5
  <2>7. Admitted(c)
    BY <2>1 DEF Holding
  <2>8. ASSUME NEW i \in 1..Outstanding', NEW j \in 1..Outstanding',
               Outgoing(i)'.op = "acquire", Outgoing(j)'.op = "acquire",
               Outgoing(i)'.conn = Outgoing(j)'.conn
        PROVE  i = j
    BY <2>5, <2>6, <2>8 DEF QueueInv
  <2>9. ASSUME NEW i \in 1..Outstanding', NEW e \in Conns, Outgoing(i)'.conn = e
        PROVE  /\ Outgoing(i)'.op = "acquire" => phase'[e] = "acquiring"
               /\ Outgoing(i)'.op = "refresh" => Admitted(e)' \/ released'[e]
    <3>1. CASE i \in 1..Outstanding
      BY <2>1, <2>5, <2>9, <3>1 DEF QueueInv, Admitted
    <3>2. CASE i = Outstanding + 1 /\ i \in Nat
      BY <2>1, <2>5, <2>7, <2>9, <3>2 DEF Admitted
    <3> QED
      BY <2>6, <3>1, <3>2
  <2> QED
    BY <1>p, <2>1, <2>8, <2>9 DEF QueueInv
<1>8. ASSUME RefreshReply PROVE QueueInv'
  <2>1. /\ answered # <<>> /\ Head(answered).op = "refresh" /\ answered' = Tail(answered)
        /\ UNCHANGED phase
    BY <1>8 DEF RefreshReply, NextReply
  <2>2. PICK c \in Conns : c = Head(answered).conn
    BY <2>1, HeadAnswered
  <2>3. 1 \in 1..Outstanding /\ Outgoing(1).op = "refresh" /\ Outgoing(1).conn = c
    BY <2>1, <2>2, OutgoingTyped
  <2>4. Admitted(c) \/ released[c]
    BY <2>3 DEF QueueInv
  <2>5. UNCHANGED pending \/ pending' = Send("release", c)
    BY <1>8, <2>2 DEF RefreshReply, ReleaseQuota
  <2>6. \A d \in Conns : released'[d] = released[d] \/ (d = c /\ released'[d])
    BY <1>8, <2>2 DEF RefreshReply, ReleaseQuota, TypeOK
  <2>7. phase[c] \notin {"idle", "acquiring"}
    BY <1>p, <2>4 DEF Admitted
  <2>8. \A d \in Conns : phase'[d] \in {"idle", "acquiring"} => ~released'[d]
    BY <1>p, <2>1, <2>6, <2>7
  <2>9. \A d \in Conns : Admitted(d) \/ released[d] => Admitted(d)' \/ released'[d]
    BY <2>1, <2>6 DEF Admitted
  <2> QED
    BY <1>q, <2>1, <2>5, <2>8, <2>9
<1>9. ASSUME ReleaseReply PROVE QueueInv'
  <2>1. /\ answered # <<>> /\ answered' = Tail(answered)
        /\ UNCHANGED <<phase, released, pending>>
    BY <1>9 DEF ReleaseReply, NextReply, serviceVars
  <2> QED
    BY <1>p, <1>q, <2>1 DEF Admitted
<1>10. ASSUME Restart PROVE QueueInv'
  <2>1. Outstanding' = 0
    BY <1>10 DEF Restart, Outstanding
  <2>2. \A c \in Conns : phase'[c] \in {"idle", "acquiring"} => ~released'[c]
    BY <1>10, <1>p DEF Restart
  <2> QED
    BY <2>1, <2>2 DEF QueueInv
<1>11. ASSUME UNCHANGED <<phase, released, pending, answered>> PROVE QueueInv'
  BY <1>11 DEF QueueInv, Outstanding, Outgoing, Admitted
<1> QED
  BY <1>1, <1>2, <1>3, <1>4, <1>5, <1>6, <1>7, <1>8, <1>9, <1>10, <1>11
  DEF Next, BrokerCloses, Tick, vars, serviceVars, redisVars

LEMMA QueueInit == Init => QueueInv
<1> SUFFICES ASSUME Init PROVE QueueInv
  OBVIOUS
<1>1. Outstanding = 0
  BY DEF Init, Outstanding
<1> QED
  BY <1>1 DEF Init, QueueInv

\* The inductive invariant of the scripts: each request has one acquire under
\* way until it is answered, and no reply gives back what was never taken.
THEOREM QueueInvariant == Spec => []QueueInv
BY QueueInit, QueueStep, TypeCorrect, PTL DEF Spec

-----------------------------------------------------------------------------
(* The count of the connections that hold quota.                           *)

LEMMA HoldingFinite ==
    /\ IsFiniteSet(Holding)
    /\ Cardinality(Holding) \in Nat
    /\ \A c : c \in Holding => Cardinality(Holding) >= 1 /\ IsFiniteSet(Holding \ {c})
                               /\ Cardinality(Holding \ {c}) = Cardinality(Holding) - 1
    /\ \A c : c \notin Holding => IsFiniteSet(Holding \cup {c})
                               /\ Cardinality(Holding \cup {c}) = Cardinality(Holding) + 1
<1>1. IsFiniteSet(Holding)
  BY QuotaAssumption, FS_Subset DEF Holding
<1>2. Cardinality(Holding) \in Nat
  BY <1>1, FS_CardinalityType
<1>3. ASSUME NEW c \in Holding PROVE Cardinality(Holding) >= 1
  <2>1. Cardinality(Holding) # 0
    BY <1>1, FS_EmptySet
  <2> QED
    BY <1>2, <2>1
<1> QED
  BY <1>1, <1>2, <1>3, FS_RemoveElement, FS_AddElement

\* Giving quota back is counted once, for a connection that held it.
LEMMA ReleaseCounted ==
    ASSUME TypeOK, ActiveCountsHolders, NEW c \in Conns, ReleaseQuota(c),
           Admitted(c) \/ released[c],
           \A d \in Conns : d # c => (Admitted(d)' <=> Admitted(d)),
           Admitted(c)' => Admitted(c)
    PROVE  ActiveCountsHolders'
<1>1. \A d \in Conns : d # c => released'[d] = released[d]
  BY DEF ReleaseQuota, TypeOK
<1>2. released'[c]
  BY DEF ReleaseQuota, TypeOK
<1>3. Holding' = Holding \ {c}
  BY <1>1, <1>2 DEF Holding
<1>4. CASE c \in Holding
  <2>1. active > 0 /\ active' = active - 1
    <3>1. ~released[c]
      BY <1>4 DEF Holding
    <3>2. Cardinality(Holding) >= 1 /\ Cardinality(Holding) \in Nat
      BY <1>4, HoldingFinite
    <3> QED
      BY <3>1, <3>2 DEF ReleaseQuota, ActiveCountsHolders
  <2> QED
    BY <1>3, <1>4, <2>1, HoldingFinite DEF ActiveCountsHolders
<1>5. CASE c \notin Holding
  <2>1. released[c] /\ UNCHANGED active
    BY <1>5 DEF Holding, ReleaseQuota
  <2>2. Holding' = Holding
    BY <1>3, <1>5
  <2> QED
    BY <2>1, <2>2 DEF ActiveCountsHolders
<1> QED
  BY <1>4, <1>5

LEMMA CountStep == TypeOK /\ QueueInv /\ ActiveCountsHolders /\ [Next]_vars => ActiveCountsHolders'
<1> SUFFICES ASSUME TypeOK, QueueInv, ActiveCountsHolders, [Next]_vars PROVE ActiveCountsHolders'
  OBVIOUS
<1>k. ASSUME UNCHANGED <<released, active>>, \A d \in Conns : Admitted(d)' <=> Admitted(d)
      PROVE  ActiveCountsHolders'
  <2>1. Holding' = Holding
    BY <1>k DEF Holding
  <2> QED
    BY <1>k, <2>1 DEF ActiveCountsHolders
<1>1. ASSUME NEW c \in Conns, RequestOpen(c) PROVE ActiveCountsHolders'
  <2>1. phase[c] = "idle" /\ phase' = [phase EXCEPT ![c] = "acquiring"]
        /\ UNCHANGED <<released, active>>
    BY <1>1 DEF RequestOpen
  <2>2. \A d \in Conns : Admitted(d)' <=> Admitted(d)
    BY <2>1 DEF Admitted, TypeOK
  <2> QED
    BY <1>k, <2>1, <2>2
<1>2. ASSUME AcquireReply PROVE ActiveCountsHolders'
  <2>1. answered # <<>> /\ Head(answered).op = "acquire" /\ UNCHANGED released
    BY <1>2 DEF AcquireReply, NextReply
  <2>2. PICK c \in Conns : c = Head(answered).conn
    BY <2>1, HeadAnswered
  <2>3. phase[c] = "acquiring" /\ ~released[c]
    BY <2>1, <2>2, OutgoingTyped DEF QueueInv
  <2>4. CASE phase' = [phase EXCEPT ![c] = "registering"] /\ active' = active + 1
    <3>1. c \notin Holding /\ Holding' = Holding \cup {c}
      BY <2>1, <2>3, <2>4 DEF Holding, Admitted, TypeOK
    <3> QED
      BY <2>4, <3>1, HoldingFinite DEF ActiveCountsHolders
  <2>5. CASE phase' = [phase EXCEPT ![c] = "refused"] /\ UNCHANGED active
    <3>1. \A d \in Conns : Admitted(d)' <=> Admitted(d)
      BY <2>3, <2>5 DEF Admitted, TypeOK
    <3> QED
      BY <1>k, <2>1, <2>5, <3>1
  <2> QED
    BY <1>2, <2>2, <2>4, <2>5 DEF AcquireReply
<1>3. ASSUME NEW c \in Conns, Registered(c) PROVE ActiveCountsHolders'
  <2>1. phase[c] = "registering" /\ phase' = [phase EXCEPT ![c] = "open"]
        /\ UNCHANGED <<released, active>>
    BY <1>3 DEF Registered
  <2>2. \A d \in Conns : Admitted(d)' <=> Admitted(d)
    BY <2>1 DEF Admitted, TypeOK
  <2> QED
    BY <1>k, <2>1, <2>2
<1>4. ASSUME NEW c \in Conns, RegisterFails(c) PROVE ActiveCountsHolders'
  <2>1. phase[c] = "registering" /\ phase' = [phase EXCEPT ![c] = "gone"] /\ ReleaseQuota(c)
    BY <1>4 DEF RegisterFails
  <2>2. /\ Admitted(c) /\ ~Admitted(c)'
        /\ \A d \in Conns : d # c => (Admitted(d)' <=> Admitted(d))
    BY <2>1 DEF Admitted, TypeOK
  <2> QED
    BY <2>1, <2>2, ReleaseCounted
<1>5. ASSUME NEW c \in Conns, ResponseClose(c) PROVE ActiveCountsHolders'
  <2>1. \A d \in Conns : Admitted(d)' <=> Admitted(d)
    BY <1>5 DEF ResponseClose, Admitted
  <2>2. CASE phase[c] = "open"
    <3>1. ReleaseQuota(c) /\ Admitted(c)
      BY <1>5, <2>2 DEF ResponseClose, Admitted
    <3> QED
      BY <2>1, <3>1, ReleaseCounted
  <2>3. CASE phase[c] # "open"
    BY <1>5, <1>k, <2>1, <2>3 DEF ResponseClose
  <2> QED
    BY <2>2, <2>3
<1>6. ASSUME RefreshReply PROVE ActiveCountsHolders'
  <2>1. answered # <<>> /\ Head(answered).op = "refresh" /\ UNCHANGED phase
    BY <1>6 DEF RefreshReply, NextReply
  <2>2. PICK c \in Conns : c = Head(answered).conn
    BY <2>1, HeadAnswered
  <2>3. Admitted(c) \/ released[c]
    BY <2>1, <2>2, OutgoingTyped DEF QueueInv
  <2>4. \A d \in Conns : Admitted(d)' <=> Admitted(d)
    BY <2>1 DEF Admitted
  <2>5. CASE ReleaseQuota(c)
    BY <2>3, <2>4, <2>5, ReleaseCounted
  <2>6. CASE UNCHANGED <<released, active>>
    BY <1>k, <2>4, <2>6
  <2> QED
    BY <1>6, <2>2, <2>5, <2>6 DEF RefreshReply
<1>7. ASSUME Restart PROVE ActiveCountsHolders'
  <2>1. Holding' = {}
    BY <1>7 DEF Restart, Holding, Admitted
  <2> QED
    BY <1>7, <2>1, FS_EmptySet DEF Restart, ActiveCountsHolders
<1>8. ASSUME UNCHANGED <<phase, released, active>> PROVE ActiveCountsHolders'
  <2>1. \A d \in Conns : Admitted(d)' <=> Admitted(d)
    BY <1>8 DEF Admitted
  <2> QED
    BY <1>8, <1>k, <2>1
<1> QED
  BY <1>1, <1>2, <1>3, <1>4, <1>5, <1>6, <1>7, <1>8
  DEF Next, Execute, ExecuteError, ConnectionLost, BrokerCloses, Heartbeat, ReleaseReply, Tick,
      vars, serviceVars

\* The count behind the metrics is the number of connections that hold quota,
\* for any connections and however their release paths interleave.
THEOREM ActiveCountsHoldersAlways == Spec => []ActiveCountsHolders
<1>1. Init => ActiveCountsHolders
  <2> SUFFICES ASSUME Init PROVE ActiveCountsHolders
    OBVIOUS
  <2>1. Holding = {}
    BY DEF Init, Holding, Admitted
  <2> QED
    BY <2>1, FS_EmptySet DEF Init, ActiveCountsHolders
<1> QED
  BY <1>1, CountStep, QueueInvariant, TypeCorrect, PTL DEF Spec

-----------------------------------------------------------------------------
(* Leases do not come back.                                                *)

LEMMA RevivalStep ==
    TypeOK /\ QueueInv /\ [Next]_vars
        => \A c \in Conns : leases[c] = 0 /\ Admitted(c) => leases'[c] = 0
<1> SUFFICES ASSUME TypeOK, QueueInv, [Next]_vars, NEW c \in Conns, leases[c] = 0, Admitted(c)
             PROVE  leases'[c] = 0
  OBVIOUS
<1>1. ASSUME Execute PROVE leases'[c] = 0
  <2>1. PICK s \in Script : s = Head(pending)
    BY <1>1, HeadPending DEF Execute
  <2>2. leases' = Effect(s) /\ s.op \in Scripts /\ s.conn \in Conns /\ s.at \in Nat
    BY <1>1, <2>1 DEF Execute, Script
  <2>3. Pruned(s.at)[c] = 0 /\ Pruned(s.at) \in [Conns -> Nat]
    BY DEF Pruned, TypeOK
  <2>4. CASE s.op = "acquire"
    <3>1. phase[s.conn] = "acquiring"
      BY <1>1, <2>1, <2>2, <2>4, OutgoingTyped DEF Execute, QueueInv
    <3>2. s.conn # c
      BY <3>1 DEF Admitted
    <3> QED
      BY <2>2, <2>3, <2>4, <3>2 DEF Effect, AcquireEffect
  <2>5. CASE s.op = "refresh"
    <3>1. RefreshGrants(s) => s.conn # c
      BY <2>3 DEF RefreshGrants, Members
    <3>2. RefreshEffect(s)[c] = 0
      BY <2>3, <3>1 DEF RefreshEffect
    <3> QED
      BY <2>2, <2>5, <3>2 DEF Effect
  <2>6. CASE s.op = "release"
    BY <2>2, <2>6 DEF Effect, ReleaseEffect, TypeOK
  <2> QED
    BY <2>2, <2>4, <2>5, <2>6 DEF Scripts
<1>2. ASSUME Restart PROVE leases'[c] = 0
  BY <1>2 DEF Restart
<1>3. ASSUME UNCHANGED leases PROVE leases'[c] = 0
  BY <1>3
<1> QED
  BY <1>1, <1>2, <1>3
  DEF Next, ExecuteError, ConnectionLost, AcquireReply, RefreshReply, ReleaseReply, RequestOpen,
      Registered, RegisterFails, BrokerCloses, ResponseClose, Heartbeat, Tick, vars, redisVars

\* The lease of an admitted connection that expired or was released stays away,
\* whichever scripts run late or twice.
THEOREM NoRevivalAlways == Spec => NoRevival
<1>1. TypeOK /\ QueueInv /\ [Next]_vars
         => [\A c \in Conns : leases[c] = 0 /\ Admitted(c) => leases'[c] = 0]_vars
  BY RevivalStep
<1> QED
  BY <1>1, TypeCorrect, QueueInvariant, PTL DEF Spec, NoRevival

-----------------------------------------------------------------------------
(* A live stream has a lease.                                              *)

\* Scripts are sent in the order of time and answered in time, heartbeats fire
\* in time, and quota that is given back belongs to no live stream.
TimeInv ==
    /\ \A i, j \in 1..Outstanding : i < j => Outgoing(i).at <= Outgoing(j).at
    /\ \A i \in 1..Outstanding :
          Outgoing(i).at <= clock /\ clock <= Outgoing(i).at + MaxDelay
    /\ \A c \in Conns : Admitted(c) /\ ~released[c] =>
          lastBeat[c] <= clock /\ clock <= lastBeat[c] + Interval
    /\ \A i \in 1..Outstanding : Outgoing(i).op = "release" => released[Outgoing(i).conn]
    /\ \A c \in Conns : Admitted(c) /\ response[c] = "live" => ~released[c]

\* A lease that was granted is there when the reply arrives.
GrantedInv ==
    \A i \in 1..Len(answered) :
        answered[i].op = "acquire" /\ answered[i].result = "yes" =>
            leases[answered[i].conn] = answered[i].at + Ttl

\* The lease of a stream lasts until its next heartbeat, or until a refresh of
\* it that is to be run; and so does each lease that such a refresh will set.
Refreshes(i, c) == Outgoing(i).op = "refresh" /\ Outgoing(i).conn = c
Lasts(c) ==
    \/ leases[c] > lastBeat[c] + Interval
    \/ \E j \in 1..Outstanding :
          j > Len(answered) /\ Refreshes(j, c) /\ Outgoing(j).at < leases[c]
WillLast(c) ==
    \A i \in 1..Outstanding :
        Refreshes(i, c) =>
            \/ Outgoing(i).at = lastBeat[c]
            \/ \E j \in 1..Outstanding :
                  j > i /\ Refreshes(j, c) /\ Outgoing(j).at <= Outgoing(i).at + Interval
LastingInv ==
    \A c \in Conns : Admitted(c) /\ ~released[c] /\ c \notin erred => Lasts(c) /\ WillLast(c)

\* Where a script goes that is sent.
LEMMA Sent ==
    ASSUME TypeOK, NEW k \in {0, 1},
           \/ k = 0 /\ UNCHANGED answered
           \/ k = 1 /\ answered # <<>> /\ answered' = Tail(answered),
           NEW op \in Scripts, NEW c \in Conns, pending' = Send(op, c)
    PROVE  /\ Outstanding' = Outstanding - k + 1
           /\ \A i \in 1..(Outstanding - k) :
                 i + k \in 1..Outstanding /\ Outgoing(i)' = Outgoing(i + k)
           /\ \A i \in Nat : i = Outstanding - k + 1 =>
                 Outgoing(i)' = [op |-> op, conn |-> c, at |-> clock]
<1>1. pending' # pending
  BY SendNew
<1>2. PICK o \in Scripts, d \in Conns :
         /\ pending' = Send(o, d)
         /\ Outstanding' = Outstanding - k + 1
         /\ \A i \in 1..(Outstanding - k) :
               i + k \in 1..Outstanding /\ Outgoing(i)' = Outgoing(i + k)
         /\ \A i \in Nat : i = Outstanding - k + 1 =>
               Outgoing(i)' = [op |-> o, conn |-> d, at |-> clock]
  BY <1>1, DropAndAdd
<1>3. o = op /\ d = c
  <2>1. /\ Send(o, d)[Len(pending) + 1] = [op |-> o, conn |-> d, at |-> clock]
        /\ Send(op, c)[Len(pending) + 1] = [op |-> op, conn |-> c, at |-> clock]
    BY SendTyped
  <2>2. [op |-> o, conn |-> d, at |-> clock] = [op |-> op, conn |-> c, at |-> clock]
    BY <1>2, <2>1
  <2> QED
    BY <2>2
<1> QED
  BY <1>2, <1>3

\* The same for a step that may also send nothing: the last script of the
\* queue may be new.
LEMMA Moves ==
    ASSUME TypeOK, NEW k \in {0, 1},
           \/ k = 0 /\ UNCHANGED answered
           \/ k = 1 /\ answered # <<>> /\ answered' = Tail(answered),
           NEW op \in Scripts, NEW c \in Conns, UNCHANGED pending \/ pending' = Send(op, c)
    PROVE  /\ Outstanding' \in Nat
           /\ Len(answered') = Len(answered) - k /\ Len(answered) >= k /\ Len(answered) \in Nat
           /\ \A i \in 1..Len(answered') : i + k \in 1..Len(answered) /\ answered'[i] = answered[i + k]
           /\ \A j \in 1..Outstanding : j > k =>
                 j - k \in 1..Outstanding' /\ Outgoing(j - k)' = Outgoing(j)
           /\ \A i \in 1..Outstanding' :
                 \/ i + k \in 1..Outstanding /\ Outgoing(i)' = Outgoing(i + k)
                 \/ /\ pending' = Send(op, c) /\ i = Outstanding'
                    /\ Outgoing(i)' = [op |-> op, conn |-> c, at |-> clock]
<1>t. /\ Len(answered) \in Nat /\ Len(pending) \in Nat /\ Outstanding \in Nat
      /\ answered \in Seq(Reply) /\ Outstanding = Len(answered) + Len(pending)
  BY OutgoingTyped DEF TypeOK, Outstanding
<1>1. /\ Len(answered') = Len(answered) - k /\ Len(answered) >= k
      /\ \A i \in 1..Len(answered') : i + k \in 1..Len(answered) /\ answered'[i] = answered[i + k]
  <2>1. CASE k = 0 /\ UNCHANGED answered
    BY <1>t, <2>1
  <2>2. CASE k = 1 /\ answered # <<>> /\ answered' = Tail(answered)
    BY <1>t, <2>2
  <2> QED
    BY <2>1, <2>2
<1>2. ASSUME \A i \in 1..(Outstanding - k) :
                i + k \in 1..Outstanding /\ Outgoing(i)' = Outgoing(i + k),
             Outstanding' \in {Outstanding - k, Outstanding - k + 1}
      PROVE  \A j \in 1..Outstanding : j > k =>
                j - k \in 1..Outstanding' /\ Outgoing(j - k)' = Outgoing(j)
  <2> SUFFICES ASSUME NEW j \in 1..Outstanding, j > k
               PROVE  j - k \in 1..Outstanding' /\ Outgoing(j - k)' = Outgoing(j)
    OBVIOUS
  <2>1. PICK i \in Nat : i = j - k
    BY <1>t
  <2>2. i \in 1..(Outstanding - k) /\ i + k = j /\ i \in 1..Outstanding'
    BY <1>t, <1>2, <2>1
  <2>3. Outgoing(i)' = Outgoing(i + k)
    BY <1>2, <2>2
  <2> QED
    BY <2>1, <2>2, <2>3
<1>3. CASE UNCHANGED pending
  <2>1. /\ Outstanding' = Outstanding - k
        /\ \A i \in 1..Outstanding' : i + k \in 1..Outstanding /\ Outgoing(i)' = Outgoing(i + k)
    <3>1. \A o \in Scripts, d \in Conns : pending # Send(o, d)
      BY SendNew
    <3> QED
      BY <1>3, <3>1, DropAndAdd
  <2> QED
    BY <1>t, <1>1, <1>2, <2>1
<1>4. CASE pending' = Send(op, c)
  <2>1. /\ Outstanding' = Outstanding - k + 1
        /\ \A i \in 1..(Outstanding - k) :
              i + k \in 1..Outstanding /\ Outgoing(i)' = Outgoing(i + k)
        /\ \A i \in Nat : i = Outstanding - k + 1 =>
              Outgoing(i)' = [op |-> op, conn |-> c, at |-> clock]
    BY <1>4, Sent
  <2>2. \A i \in 1..Outstanding' : i \in 1..(Outstanding - k) \/ (i \in Nat /\ i = Outstanding - k + 1)
    BY <1>t, <1>1, <2>1
  <2>3. Outstanding' \in Nat
    BY <1>t, <1>1, <2>1
  <2> QED
    BY <1>t, <1>1, <1>2, <1>4, <2>1, <2>2, <2>3
<1> QED
  BY <1>3, <1>4

\* A step that does not let time pass keeps TimeInv, if what it sends is sent
\* now and it starts heartbeats and gives back quota as the code does.
LEMMA TimeKept ==
    ASSUME TypeOK, TimeInv, NEW k \in {0, 1}, UNCHANGED clock, Outstanding' \in Nat,
           \A i \in 1..Outstanding' :
              \/ i + k \in 1..Outstanding /\ Outgoing(i)' = Outgoing(i + k)
              \/ /\ i = Outstanding' /\ Outgoing(i)'.at = clock
                 /\ Outgoing(i)'.op = "release" => released'[Outgoing(i)'.conn],
           \A c \in Conns : released[c] => released'[c],
           \A c \in Conns : Admitted(c)' /\ ~released'[c] =>
              lastBeat'[c] <= clock /\ clock <= lastBeat'[c] + Interval,
           \A c \in Conns : Admitted(c)' /\ response'[c] = "live" => ~released'[c]
    PROVE  TimeInv'
<1>t. /\ Outstanding \in Nat /\ clock \in Nat /\ MaxDelay \in Nat
      /\ \A i \in 1..Outstanding : Outgoing(i).conn \in Conns /\ Outgoing(i).at \in Nat
  BY OutgoingTyped, QuotaAssumption DEF TypeOK, Script
<1>1. ASSUME NEW i \in 1..Outstanding', NEW j \in 1..Outstanding', i < j
      PROVE  Outgoing(i)'.at <= Outgoing(j)'.at
  <2>1. i # Outstanding'
    BY <1>1
  <2>2. i + k \in 1..Outstanding /\ Outgoing(i)' = Outgoing(i + k)
    BY <2>1
  <2>3. CASE j + k \in 1..Outstanding /\ Outgoing(j)' = Outgoing(j + k)
    <3>1. i + k < j + k
      BY <1>1
    <3> QED
      BY <2>2, <2>3, <3>1 DEF TimeInv
  <2>4. CASE Outgoing(j)'.at = clock
    BY <2>2, <2>4 DEF TimeInv
  <2> QED
    BY <2>3, <2>4
<1>2. ASSUME NEW i \in 1..Outstanding'
      PROVE  /\ Outgoing(i)'.at <= clock' /\ clock' <= Outgoing(i)'.at + MaxDelay
             /\ Outgoing(i)'.op = "release" => released'[Outgoing(i)'.conn]
  <2>1. CASE i + k \in 1..Outstanding /\ Outgoing(i)' = Outgoing(i + k)
    BY <1>t, <2>1 DEF TimeInv
  <2>2. CASE /\ Outgoing(i)'.at = clock
             /\ Outgoing(i)'.op = "release" => released'[Outgoing(i)'.conn]
    BY <1>t, <2>2
  <2> QED
    BY <2>1, <2>2
<1> QED
  BY <1>1, <1>2 DEF TimeInv

\* Quota that is given back, by whichever path.
LEMMA QuotaGivenBack ==
    ASSUME TypeOK, NEW c \in Conns, ReleaseQuota(c)
    PROVE  /\ \A d \in Conns : released'[d] = (released[d] \/ d = c)
           /\ UNCHANGED pending \/ pending' = Send("release", c)
BY DEF ReleaseQuota, TypeOK

LEMMA TimeStep == TypeOK /\ TypeOK' /\ QueueInv /\ TimeInv /\ [Next]_vars => TimeInv'
<1> SUFFICES ASSUME TypeOK, TypeOK', QueueInv, TimeInv, [Next]_vars PROVE TimeInv'
  OBVIOUS
<1>t. Outstanding \in Nat /\ Outstanding' \in Nat /\ clock \in Nat
  <2>1. Outstanding \in Nat
    BY OutgoingTyped
  <2>2. Len(answered') \in Nat /\ Len(pending') \in Nat
    BY DEF TypeOK
  <2> QED
    BY <2>1, <2>2 DEF TypeOK, Outstanding
<1>b. \A c \in Conns : Admitted(c) /\ ~released[c] =>
         lastBeat[c] <= clock /\ clock <= lastBeat[c] + Interval
  BY DEF TimeInv
<1>l. \A c \in Conns : Admitted(c) /\ response[c] = "live" => ~released[c]
  BY DEF TimeInv
\* Replies that are handled, and releases that are sent.
<1>k. ASSUME NEW k \in {0, 1},
             \/ k = 0 /\ UNCHANGED answered
             \/ k = 1 /\ answered # <<>> /\ answered' = Tail(answered),
             NEW c \in Conns,
             UNCHANGED pending \/ (pending' = Send("release", c) /\ released'[c]),
             UNCHANGED clock, \A d \in Conns : released[d] => released'[d],
             \A d \in Conns : Admitted(d)' /\ ~released'[d] =>
                lastBeat'[d] <= clock /\ clock <= lastBeat'[d] + Interval,
             \A d \in Conns : Admitted(d)' /\ response'[d] = "live" => ~released'[d]
      PROVE  TimeInv'
  <2>1. \A i \in 1..Outstanding' :
           \/ i + k \in 1..Outstanding /\ Outgoing(i)' = Outgoing(i + k)
           \/ /\ pending' = Send("release", c) /\ i = Outstanding'
              /\ Outgoing(i)' = [op |-> "release", conn |-> c, at |-> clock]
    BY <1>k, Moves DEF Scripts
  <2>2. \A i \in 1..Outstanding' :
           \/ i + k \in 1..Outstanding /\ Outgoing(i)' = Outgoing(i + k)
           \/ /\ i = Outstanding' /\ Outgoing(i)'.at = clock
              /\ Outgoing(i)'.op = "release" => released'[Outgoing(i)'.conn]
    <3> SUFFICES ASSUME NEW i \in 1..Outstanding',
                        pending' = Send("release", c), i = Outstanding',
                        Outgoing(i)' = [op |-> "release", conn |-> c, at |-> clock]
                 PROVE  /\ i = Outstanding' /\ Outgoing(i)'.at = clock
                        /\ Outgoing(i)'.op = "release" => released'[Outgoing(i)'.conn]
      BY <2>1
    <3>1. pending' # pending
      BY SendNew DEF Scripts
    <3> QED
      BY <1>k, <3>1
  <2> QED
    BY <1>t, <1>k, <2>2, TimeKept
<1>1. CASE Execute \/ ExecuteError \/ ConnectionLost
  <2>1. UNCHANGED <<clock, phase, released, response, lastBeat>>
    BY <1>1 DEF Execute, ExecuteError, ConnectionLost, serviceVars
  <2>2. Outstanding' = Outstanding /\ \A i \in 1..Outstanding : Outgoing(i)' = Outgoing(i)
    BY <1>1, SameOutgoing
  <2>3. \A i \in 1..Outstanding' : i + 0 \in 1..Outstanding /\ Outgoing(i)' = Outgoing(i + 0)
    <3>1. \A i \in 1..Outstanding' : i + 0 = i /\ i \in 1..Outstanding
      BY <1>t, <2>2
    <3> QED
      BY <2>2, <3>1
  <2>4. \A c \in Conns : Admitted(c)' <=> Admitted(c)
    BY <2>1 DEF Admitted
  <2> QED
    BY <1>t, <1>b, <1>l, <2>1, <2>3, <2>4, TimeKept
<1>s. ASSUME NEW op \in {"acquire", "refresh"}, NEW c \in Conns, pending' = Send(op, c),
             UNCHANGED <<clock, answered, released, response>>,
             \A d \in Conns : Admitted(d)' <=> Admitted(d),
             \A d \in Conns : lastBeat'[d] = lastBeat[d] \/ lastBeat'[d] = clock
      PROVE  TimeInv'
  <2>1. \A i \in 1..Outstanding' :
           \/ i + 0 \in 1..Outstanding /\ Outgoing(i)' = Outgoing(i + 0)
           \/ /\ pending' = Send(op, c) /\ i = Outstanding'
              /\ Outgoing(i)' = [op |-> op, conn |-> c, at |-> clock]
    BY <1>s, Moves DEF Scripts
  <2>2. \A i \in 1..Outstanding' :
           \/ i + 0 \in 1..Outstanding /\ Outgoing(i)' = Outgoing(i + 0)
           \/ /\ i = Outstanding' /\ Outgoing(i)'.at = clock
              /\ Outgoing(i)'.op = "release" => released'[Outgoing(i)'.conn]
    BY <1>s, <2>1
  <2>3. \A d \in Conns : Admitted(d)' /\ ~released'[d] =>
           lastBeat'[d] <= clock /\ clock <= lastBeat'[d] + Interval
    BY <1>t, <1>b, <1>s, QuotaAssumption
  <2> QED
    BY <1>t, <1>l, <1>s, <2>2, <2>3, TimeKept
<1>2. ASSUME NEW c \in Conns, RequestOpen(c) PROVE TimeInv'
  <2>1. \A d \in Conns : Admitted(d)' <=> Admitted(d)
    BY <1>2 DEF RequestOpen, Admitted, TypeOK
  <2> QED
    BY <1>2, <1>s, <2>1 DEF RequestOpen
<1>3. ASSUME NEW c \in Conns, Heartbeat(c) PROVE TimeInv'
  <2>1. \A d \in Conns : Admitted(d)' <=> Admitted(d)
    BY <1>3 DEF Heartbeat, Admitted
  <2>2. \A d \in Conns : lastBeat'[d] = lastBeat[d] \/ lastBeat'[d] = clock
    BY <1>3 DEF Heartbeat, TypeOK
  <2> QED
    BY <1>3, <1>s, <2>1, <2>2 DEF Heartbeat
<1>4. ASSUME AcquireReply PROVE TimeInv'
  <2>1. /\ answered # <<>> /\ Head(answered).op = "acquire" /\ answered' = Tail(answered)
        /\ UNCHANGED <<clock, pending, released>>
    BY <1>4 DEF AcquireReply, NextReply
  <2>2. PICK c \in Conns : c = Head(answered).conn
    BY <2>1, HeadAnswered
  <2>3. phase[c] = "acquiring" /\ ~released[c]
    BY <2>1, <2>2, OutgoingTyped DEF QueueInv
  <2>4. /\ \A d \in Conns : d # c => /\ phase'[d] = phase[d] /\ response'[d] = response[d]
                                     /\ lastBeat'[d] = lastBeat[d]
        /\ phase'[c] \in {"registering", "refused"}
        /\ phase'[c] = "registering" => lastBeat'[c] = clock
    BY <1>4, <2>2 DEF AcquireReply, TypeOK
  <2>5. \A d \in Conns : Admitted(d)' /\ ~released'[d] =>
           lastBeat'[d] <= clock /\ clock <= lastBeat'[d] + Interval
    BY <1>t, <1>b, <2>1, <2>4, QuotaAssumption DEF Admitted
  <2>6. \A d \in Conns : Admitted(d)' /\ response'[d] = "live" => ~released'[d]
    BY <1>l, <2>1, <2>3, <2>4 DEF Admitted
  <2> QED
    BY <1>k, <2>1, <2>2, <2>5, <2>6
<1>5. ASSUME NEW c \in Conns, Registered(c) \/ BrokerCloses(c) PROVE TimeInv'
  <2>1. UNCHANGED <<clock, answered, pending, released, lastBeat>>
    BY <1>5 DEF Registered, BrokerCloses, redisVars
  <2>2. \A d \in Conns : Admitted(d)' => Admitted(d)
    BY <1>5 DEF Registered, BrokerCloses, Admitted, TypeOK
  <2>3. \A d \in Conns : response'[d] = "live" => response[d] = "live"
    BY <1>5 DEF Registered, BrokerCloses, EndResponse, TypeOK
  <2> QED
    BY <1>k, <1>b, <1>l, <2>1, <2>2, <2>3
<1>g. ASSUME NEW k \in {0, 1},
             \/ k = 0 /\ UNCHANGED answered
             \/ k = 1 /\ answered # <<>> /\ answered' = Tail(answered),
             NEW c \in Conns, ReleaseQuota(c), UNCHANGED <<clock, lastBeat>>,
             \A d \in Conns : Admitted(d)' => Admitted(d),
             \A d \in Conns : d # c => response'[d] = response[d],
             response'[c] # "live"
      PROVE  TimeInv'
  <2>1. /\ \A d \in Conns : released'[d] = (released[d] \/ d = c)
        /\ UNCHANGED pending \/ pending' = Send("release", c)
    BY <1>g, QuotaGivenBack
  <2>2. \A d \in Conns : Admitted(d)' /\ ~released'[d] =>
           lastBeat'[d] <= clock /\ clock <= lastBeat'[d] + Interval
    BY <1>b, <1>g, <2>1
  <2>3. \A d \in Conns : Admitted(d)' /\ response'[d] = "live" => ~released'[d]
    BY <1>l, <1>g, <2>1
  <2> QED
    BY <1>k, <1>g, <2>1, <2>2, <2>3
<1>6. ASSUME NEW c \in Conns, RegisterFails(c) PROVE TimeInv'
  <2>1. UNCHANGED <<clock, lastBeat, answered>> /\ ReleaseQuota(c)
    BY <1>6 DEF RegisterFails
  <2>2. /\ \A d \in Conns : Admitted(d)' => Admitted(d)
        /\ \A d \in Conns : d # c => response'[d] = response[d]
        /\ response'[c] # "live"
    BY <1>6 DEF RegisterFails, EndResponse, Admitted, TypeOK
  <2> QED
    BY <1>g, <2>1, <2>2
<1>7. ASSUME NEW c \in Conns, ResponseClose(c) PROVE TimeInv'
  <2>1. UNCHANGED <<clock, lastBeat, answered, phase>>
    BY <1>7 DEF ResponseClose
  <2>2. /\ \A d \in Conns : Admitted(d)' => Admitted(d)
        /\ \A d \in Conns : d # c => response'[d] = response[d]
        /\ response'[c] # "live"
    BY <1>7 DEF ResponseClose, Admitted, TypeOK
  <2>3. CASE phase[c] = "open"
    BY <1>7, <1>g, <2>1, <2>2, <2>3 DEF ResponseClose
  <2>4. CASE phase[c] # "open"
    <3>1. UNCHANGED <<released, pending>>
      BY <1>7, <2>4 DEF ResponseClose
    <3>2. \A d \in Conns : Admitted(d)' /\ response'[d] = "live" => ~released'[d]
      BY <1>l, <2>2, <3>1
    <3> QED
      BY <1>k, <1>b, <2>1, <2>2, <3>1, <3>2
  <2> QED
    BY <2>3, <2>4
<1>8. ASSUME RefreshReply PROVE TimeInv'
  <2>1. /\ answered # <<>> /\ answered' = Tail(answered)
        /\ UNCHANGED <<clock, phase, lastBeat>>
    BY <1>8 DEF RefreshReply, NextReply
  <2>2. PICK c \in Conns : c = Head(answered).conn
    BY <2>1, HeadAnswered
  <2>3. \A d \in Conns : Admitted(d)' <=> Admitted(d)
    BY <2>1 DEF Admitted
  <2>4. CASE UNCHANGED <<released, pending, response>>
    BY <1>k, <1>b, <1>l, <2>1, <2>2, <2>3, <2>4
  <2>5. CASE ReleaseQuota(c) /\ EndResponse(c)
    <3>1. response'[c] # "live" /\ \A d \in Conns : d # c => response'[d] = response[d]
      BY <2>5 DEF EndResponse, TypeOK
    <3> QED
      BY <1>g, <2>1, <2>3, <2>5, <3>1
  <2> QED
    BY <1>8, <2>2, <2>4, <2>5 DEF RefreshReply
<1>9. ASSUME ReleaseReply PROVE TimeInv'
  <2>1. /\ answered # <<>> /\ answered' = Tail(answered)
        /\ UNCHANGED <<clock, phase, response, released, lastBeat, pending>>
    BY <1>9 DEF ReleaseReply, NextReply, serviceVars
  <2>2. \A d \in Conns : Admitted(d)' <=> Admitted(d)
    BY <2>1 DEF Admitted
  <2>3. PICK c \in Conns : c = Head(answered).conn
    BY <2>1, HeadAnswered
  <2> QED
    BY <1>k, <1>b, <1>l, <2>1, <2>2, <2>3
<1>10. ASSUME Tick PROVE TimeInv'
  <2>1. /\ clock' = clock + 1
        /\ UNCHANGED <<phase, released, response, lastBeat, pending, answered>>
        /\ \A c \in Holding : clock < lastBeat[c] + Interval
        /\ \A i \in 1..Len(pending) : clock < pending[i].at + MaxDelay
        /\ \A i \in 1..Len(answered) : clock < answered[i].at + MaxDelay
    BY <1>10 DEF Tick, serviceVars, redisVars
  <2>2. Outstanding' = Outstanding
    BY <2>1 DEF Outstanding
  <2>3. \A i \in 1..Outstanding : Outgoing(i)' = Outgoing(i) /\ Outgoing(i) \in Script
    BY <2>1, OutgoingTyped DEF Outgoing
  <2>4. ASSUME NEW i \in 1..Outstanding PROVE clock < Outgoing(i).at + MaxDelay
    <3>0. Len(answered) \in Nat /\ Len(pending) \in Nat
      BY OutgoingTyped
    <3>1. CASE i <= Len(answered)
      <4>1. i \in 1..Len(answered) /\ Outgoing(i).at = answered[i].at
        BY <3>0, <3>1 DEF Outgoing
      <4> QED
        BY <2>1, <4>1
    <3>2. CASE ~(i <= Len(answered))
      <4>1. i - Len(answered) \in 1..Len(pending)
        BY <3>0, <3>2 DEF Outstanding
      <4>2. Outgoing(i) = pending[i - Len(answered)]
        BY <3>2 DEF Outgoing
      <4> QED
        BY <2>1, <4>1, <4>2
    <3> QED
      BY <3>1, <3>2
  <2>5. \A i \in 1..Outstanding : Outgoing(i).at \in Nat /\ MaxDelay \in Nat
    BY <2>3, QuotaAssumption DEF Script
  <2>6. ASSUME NEW i \in 1..Outstanding'
        PROVE  Outgoing(i)'.at <= clock' /\ clock' <= Outgoing(i)'.at + MaxDelay
    BY <1>t, <2>1, <2>2, <2>3, <2>4, <2>5, <2>6 DEF TimeInv
  <2>7. ASSUME NEW c \in Conns, Admitted(c)', ~released'[c]
        PROVE  lastBeat'[c] <= clock' /\ clock' <= lastBeat'[c] + Interval
    <3>1. c \in Holding
      BY <2>1, <2>7 DEF Holding, Admitted
    <3>2. clock < lastBeat[c] + Interval /\ lastBeat[c] <= clock /\ lastBeat[c] \in Nat
      BY <1>b, <2>1, <3>1 DEF Holding, TypeOK
    <3> QED
      BY <1>t, <2>1, <3>2, QuotaAssumption
  <2>8. \A c \in Conns : Admitted(c)' <=> Admitted(c)
    BY <2>1 DEF Admitted
  <2> QED
    BY <2>1, <2>2, <2>3, <2>6, <2>7, <2>8 DEF TimeInv
<1>11. ASSUME Restart PROVE TimeInv'
  <2>1. Outstanding' = 0
    BY <1>11 DEF Restart, Outstanding
  <2>2. \A c \in Conns : ~Admitted(c)'
    BY <1>11 DEF Restart, Admitted
  <2> QED
    BY <2>1, <2>2 DEF TimeInv
<1>12. ASSUME UNCHANGED vars PROVE TimeInv'
  <2>1. UNCHANGED <<clock, phase, released, response, lastBeat, pending, answered>>
    BY <1>12 DEF vars, serviceVars, redisVars
  <2> QED
    BY <2>1 DEF TimeInv, Outstanding, Outgoing, Admitted
<1> QED
  BY <1>1, <1>2, <1>3, <1>4, <1>5, <1>6, <1>7, <1>8, <1>9, <1>10, <1>11, <1>12 DEF Next

LEMMA TimeInit == Init => TimeInv
<1> SUFFICES ASSUME Init PROVE TimeInv
  OBVIOUS
<1>1. Outstanding = 0
  BY DEF Init, Outstanding
<1>2. \A c \in Conns : ~Admitted(c)
  BY DEF Init, Admitted
<1> QED
  BY <1>1, <1>2 DEF TimeInv

\* A script leaves the lease of another connection alone unless it expired.
LEMMA OthersLease ==
    ASSUME TypeOK, NEW s \in Script, NEW c \in Conns, s.conn # c, leases[c] > s.at
    PROVE  Effect(s)[c] = leases[c]
<1>1. s.at \in Nat /\ s.conn \in Conns /\ s.op \in Scripts /\ leases[c] \in Nat
  BY DEF Script, TypeOK
<1>2. Pruned(s.at)[c] = leases[c] /\ Pruned(s.at) \in [Conns -> Nat]
  <2>1. ~(leases[c] <= s.at)
    BY <1>1
  <2>2. Pruned(s.at) \in [Conns -> Nat]
    BY DEF Pruned, TypeOK
  <2> QED
    BY <2>1, <2>2 DEF Pruned
<1>3. AcquireEffect(s)[c] = leases[c]
  BY <1>2 DEF AcquireEffect
<1>4. RefreshEffect(s)[c] = leases[c]
  BY <1>2 DEF RefreshEffect
<1>5. ReleaseEffect(s)[c] = leases[c]
  BY DEF ReleaseEffect, TypeOK
<1> QED
  BY <1>1, <1>3, <1>4, <1>5 DEF Effect, Scripts

LEMMA GrantedStep ==
    TypeOK /\ TypeOK' /\ QueueInv /\ TimeInv /\ GrantedInv /\ [Next]_vars => GrantedInv'
<1> SUFFICES ASSUME TypeOK, TypeOK', QueueInv, TimeInv, GrantedInv, [Next]_vars
             PROVE  GrantedInv'
  OBVIOUS
<1>t. answered \in Seq(Reply) /\ Len(answered) \in Nat /\ Len(pending) \in Nat
  BY DEF TypeOK
<1>a. ASSUME pending # <<>>, NEW result \in {"yes", "no", "error"},
             answered' = Answer(Head(pending), result)
      PROVE  \A i \in 1..Len(answered') :
                \/ i \in 1..Len(answered) /\ answered'[i] = answered[i]
                \/ i = Len(answered) + 1
                   /\ answered'[i] = [op |-> Head(pending).op, conn |-> Head(pending).conn,
                                      at |-> Head(pending).at, result |-> result]
  <2>1. [op |-> Head(pending).op, conn |-> Head(pending).conn,
         at |-> Head(pending).at, result |-> result] \in Reply
    BY <1>a, HeadPending DEF Script, Reply
  <2> QED
    BY <1>t, <1>a, <2>1 DEF Answer
<1>1. ASSUME Execute PROVE GrantedInv'
  <2>1. PICK s \in Script : s = Head(pending)
    BY <1>1, HeadPending DEF Execute
  <2>2. /\ pending # <<>> /\ leases' = Effect(s)
        /\ answered' = Answer(Head(pending), IF Grants(s) THEN "yes" ELSE "no")
    BY <1>1, <2>1 DEF Execute
  <2>3. s.at \in Nat /\ s.conn \in Conns /\ s.op \in Scripts
    BY DEF Script
  <2>4. Len(answered) + 1 \in 1..Outstanding /\ Outgoing(Len(answered) + 1) = s
    BY <2>1, <2>2, OutgoingTyped
  <2>5. PICK result \in {"yes", "no"} : result = IF Grants(s) THEN "yes" ELSE "no"
    OBVIOUS
  <2>6. \A i \in 1..Len(answered') :
           \/ i \in 1..Len(answered) /\ answered'[i] = answered[i]
           \/ answered'[i] = [op |-> s.op, conn |-> s.conn, at |-> s.at, result |-> result]
    BY <1>a, <2>1, <2>2, <2>5
  <2>7. ASSUME NEW i \in 1..Len(answered),
               answered[i].op = "acquire", answered[i].result = "yes"
        PROVE  leases'[answered[i].conn] = answered[i].at + Ttl
    <3>0. answered[i] \in Reply
      BY <1>t, <2>7
    <3>1. answered[i].conn \in Conns /\ answered[i].at \in Nat
      BY <3>0 DEF Reply
    <3>2. PICK c \in Conns : c = answered[i].conn
      BY <3>1
    <3>3. /\ i \in 1..Outstanding /\ i # Len(answered) + 1
          /\ Outgoing(i) = [op |-> "acquire", conn |-> c, at |-> answered[i].at]
      BY <1>t, <2>7, <3>2 DEF Outstanding, Outgoing
    <3>4. phase[c] = "acquiring" /\ ~released[c]
      BY <3>3 DEF QueueInv
    <3>5. s.conn # c
      <4> SUFFICES ASSUME s.conn = c PROVE FALSE
        OBVIOUS
      <4>1. s.op # "acquire"
        BY <2>4, <3>3 DEF QueueInv
      <4>2. s.op # "refresh"
        BY <2>4, <3>4 DEF QueueInv, Admitted
      <4>3. s.op # "release"
        BY <2>4, <3>4 DEF TimeInv
      <4> QED
        BY <2>3, <4>1, <4>2, <4>3 DEF Scripts
    <3>6. leases[c] = answered[i].at + Ttl
      BY <2>7, <3>2 DEF GrantedInv
    <3>7. s.at <= clock /\ clock <= answered[i].at + MaxDelay
      BY <2>4, <3>3 DEF TimeInv
    <3>8. leases[c] > s.at
      <4>1. /\ MaxDelay \in Nat /\ Interval \in Nat /\ Ttl \in Nat /\ MaxDelay < Ttl
            /\ clock \in Nat
        BY QuotaAssumption, HeartbeatInTime DEF TypeOK
      <4> QED
        BY <2>3, <3>1, <3>6, <3>7, <4>1
    <3> QED
      BY <2>2, <3>2, <3>5, <3>6, <3>8, OthersLease
  <2>8. ASSUME s.op = "acquire", result = "yes" PROVE leases'[s.conn] = s.at + Ttl
    <3>1. AcquireGrants(s)
      BY <2>5, <2>8 DEF Grants
    <3>2. Pruned(s.at) \in [Conns -> Nat]
      BY DEF Pruned, TypeOK
    <3> QED
      BY <2>2, <2>3, <2>8, <3>1, <3>2 DEF Effect, AcquireEffect
  <2> QED
    BY <2>6, <2>7, <2>8 DEF GrantedInv
<1>2. ASSUME ExecuteError PROVE GrantedInv'
  <2>1. /\ pending # <<>> /\ UNCHANGED leases
        /\ answered' = Answer(Head(pending), "error")
    BY <1>2 DEF ExecuteError
  <2>2. \A i \in 1..Len(answered') :
           \/ i \in 1..Len(answered) /\ answered'[i] = answered[i]
           \/ answered'[i].result = "error"
    BY <1>a, <2>1
  <2> QED
    BY <2>1, <2>2 DEF GrantedInv
<1>3. ASSUME answered' = <<>> PROVE GrantedInv'
  BY <1>3 DEF GrantedInv
<1>4. ASSUME answered # <<>>, answered' = Tail(answered), UNCHANGED leases PROVE GrantedInv'
  <2>1. \A i \in 1..Len(answered') : i + 1 \in 1..Len(answered) /\ answered'[i] = answered[i + 1]
    BY <1>t, <1>4
  <2> QED
    BY <1>4, <2>1 DEF GrantedInv
<1>5. ASSUME UNCHANGED <<answered, leases>> PROVE GrantedInv'
  BY <1>5 DEF GrantedInv
<1> QED
  BY <1>1, <1>2, <1>3, <1>4, <1>5
  DEF Next, ConnectionLost, AcquireReply, RefreshReply, ReleaseReply, NextReply, RequestOpen,
      Registered, RegisterFails, BrokerCloses, ResponseClose, Heartbeat, Tick, Restart,
      vars, redisVars

\* What is known of a lease does not change when replies are handled, or
\* scripts are sent that are not refreshes of it.
LEMMA LastingKept ==
    ASSUME TypeOK, NEW k \in {0, 1},
           \/ k = 0 /\ UNCHANGED answered
           \/ k = 1 /\ answered # <<>> /\ answered' = Tail(answered),
           NEW op \in Scripts, NEW d \in Conns, UNCHANGED pending \/ pending' = Send(op, d),
           NEW c \in Conns, op # "refresh" \/ d # c,
           Lasts(c), WillLast(c), UNCHANGED leases, lastBeat'[c] = lastBeat[c]
    PROVE  Lasts(c)' /\ WillLast(c)'
<1>1. /\ Outstanding' \in Nat
      /\ Len(answered') = Len(answered) - k /\ Len(answered) >= k /\ Len(answered) \in Nat
      /\ \A j \in 1..Outstanding : j > k =>
            j - k \in 1..Outstanding' /\ Outgoing(j - k)' = Outgoing(j)
      /\ \A i \in 1..Outstanding' :
            \/ i + k \in 1..Outstanding /\ Outgoing(i)' = Outgoing(i + k)
            \/ pending' = Send(op, d) /\ Outgoing(i)' = [op |-> op, conn |-> d, at |-> clock]
  BY Moves
<1>2. Lasts(c)'
  <2>1. CASE leases[c] > lastBeat[c] + Interval
    BY <2>1 DEF Lasts
  <2>2. CASE \E j \in 1..Outstanding :
                j > Len(answered) /\ Refreshes(j, c) /\ Outgoing(j).at < leases[c]
    <3>1. PICK j \in 1..Outstanding :
             j > Len(answered) /\ Refreshes(j, c) /\ Outgoing(j).at < leases[c]
      BY <2>2
    <3>2. j > k /\ j - k > Len(answered')
      BY <1>1, <3>1
    <3>3. j - k \in 1..Outstanding' /\ Outgoing(j - k)' = Outgoing(j)
      BY <1>1, <3>2
    <3> QED
      BY <3>1, <3>2, <3>3 DEF Lasts, Refreshes
  <2> QED
    BY <2>1, <2>2 DEF Lasts
<1>3. ASSUME NEW i \in 1..Outstanding', Refreshes(i, c)'
      PROVE  \/ Outgoing(i)'.at = lastBeat'[c]
             \/ \E j \in 1..Outstanding' :
                   j > i /\ Refreshes(j, c)' /\ Outgoing(j)'.at <= Outgoing(i)'.at + Interval
  <2>1. i + k \in 1..Outstanding /\ Outgoing(i)' = Outgoing(i + k)
    BY <1>1, <1>3 DEF Refreshes
  <2>2. \/ Outgoing(i + k).at = lastBeat[c]
        \/ \E j \in 1..Outstanding :
              j > i + k /\ Refreshes(j, c) /\ Outgoing(j).at <= Outgoing(i + k).at + Interval
    BY <1>3, <2>1 DEF WillLast, Refreshes
  <2>3. CASE \E j \in 1..Outstanding :
                j > i + k /\ Refreshes(j, c) /\ Outgoing(j).at <= Outgoing(i + k).at + Interval
    <3>1. PICK j \in 1..Outstanding :
             j > i + k /\ Refreshes(j, c) /\ Outgoing(j).at <= Outgoing(i + k).at + Interval
      BY <2>3
    <3>2. j > k /\ j - k > i
      BY <3>1
    <3>3. j - k \in 1..Outstanding' /\ Outgoing(j - k)' = Outgoing(j)
      BY <1>1, <3>2
    <3> QED
      BY <2>1, <3>1, <3>2, <3>3 DEF Refreshes
  <2> QED
    BY <2>1, <2>2, <2>3
<1>4. WillLast(c)'
  BY <1>3 DEF WillLast
<1> QED
  BY <1>2, <1>4

\* The heartbeat sends the refresh that prolongs the lease.
LEMMA LastingBeat ==
    ASSUME TypeOK, TimeInv, NEW c \in Conns, Heartbeat(c), Lasts(c), WillLast(c)
    PROVE  Lasts(c)' /\ WillLast(c)'
<1>t. Outstanding \in Nat /\ clock \in Nat /\ Interval \in Nat /\ lastBeat[c] \in Nat
  BY OutgoingTyped, QuotaAssumption DEF TypeOK
<1>1. /\ clock = lastBeat[c] + Interval /\ lastBeat'[c] = clock
      /\ pending' = Send("refresh", c) /\ UNCHANGED <<answered, leases>>
  BY DEF Heartbeat, TypeOK
<1>2. /\ Outstanding' = Outstanding + 1
      /\ \A i \in 1..Outstanding : Outgoing(i)' = Outgoing(i)
      /\ \A n \in Nat : n = Outstanding + 1 =>
            Outgoing(n)' = [op |-> "refresh", conn |-> c, at |-> clock]
  <2>1. /\ Outstanding' = Outstanding - 0 + 1
        /\ \A i \in 1..(Outstanding - 0) :
              i + 0 \in 1..Outstanding /\ Outgoing(i)' = Outgoing(i + 0)
        /\ \A i \in Nat : i = Outstanding - 0 + 1 =>
              Outgoing(i)' = [op |-> "refresh", conn |-> c, at |-> clock]
    BY <1>1, Sent DEF Scripts
  <2>2. Outstanding - 0 = Outstanding /\ \A i \in 1..Outstanding : i + 0 = i
    BY <1>t
  <2>3. PICK n \in Nat : n = Outstanding'
    BY <1>t, <2>1
  <2>4. Outgoing(n)' = [op |-> "refresh", conn |-> c, at |-> clock]
    BY <2>1, <2>3
  <2>5. \A i \in 1..Outstanding : Outgoing(i)' = Outgoing(i)
    <3> SUFFICES ASSUME NEW i \in 1..Outstanding PROVE Outgoing(i)' = Outgoing(i)
      OBVIOUS
    <3>1. i \in 1..(Outstanding - 0) /\ i + 0 = i
      BY <2>2
    <3> QED
      BY <2>1, <3>1
  <2> QED
    BY <1>t, <2>1, <2>3, <2>4, <2>5
<1>3. PICK n \in 1..Outstanding' : n = Outstanding + 1 /\ n \in Nat
  BY <1>t, <1>2
<1>4. /\ Outgoing(n)' = [op |-> "refresh", conn |-> c, at |-> clock]
      /\ Refreshes(n, c)' /\ \A i \in 1..Outstanding : n > i
  BY <1>t, <1>2, <1>3 DEF Refreshes
<1>5. \A i \in 1..Outstanding' : i = n \/ i \in 1..Outstanding
  BY <1>t, <1>2, <1>3
<1>6. \A i \in 1..Outstanding : i \in 1..Outstanding'
  BY <1>t, <1>2
<1>7. Lasts(c)'
  <2>1. CASE leases[c] > lastBeat[c] + Interval
    <3>1. Len(answered') = Len(answered) /\ n > Len(answered)
      BY <1>t, <1>1, <1>2, <1>3, OutgoingTyped DEF Outstanding
    <3>2. Outgoing(n)'.at < leases'[c]
      BY <1>1, <1>4, <2>1, <1>t DEF TypeOK
    <3> QED
      BY <1>3, <1>4, <3>1, <3>2 DEF Lasts
  <2>2. CASE \E j \in 1..Outstanding :
                j > Len(answered) /\ Refreshes(j, c) /\ Outgoing(j).at < leases[c]
    BY <1>1, <1>2, <1>6, <2>2 DEF Lasts, Refreshes
  <2> QED
    BY <2>1, <2>2 DEF Lasts
<1>8. ASSUME NEW i \in 1..Outstanding', Refreshes(i, c)'
      PROVE  \/ Outgoing(i)'.at = lastBeat'[c]
             \/ \E j \in 1..Outstanding' :
                   j > i /\ Refreshes(j, c)' /\ Outgoing(j)'.at <= Outgoing(i)'.at + Interval
  <2>1. CASE i = n
    BY <1>1, <1>4, <2>1
  <2>2. CASE i \in 1..Outstanding
    <3>1. Outgoing(i)' = Outgoing(i) /\ Refreshes(i, c)
      BY <1>2, <1>8, <2>2 DEF Refreshes
    <3>2. CASE Outgoing(i).at = lastBeat[c]
      BY <1>t, <1>1, <1>4, <2>2, <3>1, <3>2
    <3>3. CASE \E j \in 1..Outstanding :
                  j > i /\ Refreshes(j, c) /\ Outgoing(j).at <= Outgoing(i).at + Interval
      BY <1>2, <1>6, <3>1, <3>3 DEF Refreshes
    <3> QED
      BY <2>2, <3>1, <3>2, <3>3 DEF WillLast
  <2> QED
    BY <1>5, <2>1, <2>2
<1> QED
  BY <1>7, <1>8 DEF WillLast

\* A lease that lasts is not expired when a script runs.
LEMMA LastsPastHead ==
    ASSUME TypeOK, TimeInv, NEW c \in Conns, Admitted(c), ~released[c], Lasts(c),
           NEW n \in 1..Outstanding, n = Len(answered) + 1
    PROVE  leases[c] > Outgoing(n).at
<1>t. /\ Len(answered) \in Nat /\ clock \in Nat /\ Interval \in Nat
      /\ leases[c] \in Nat /\ lastBeat[c] \in Nat
      /\ \A i \in 1..Outstanding : Outgoing(i).at \in Nat
  BY OutgoingTyped, QuotaAssumption DEF TypeOK, Script
<1>1. CASE leases[c] > lastBeat[c] + Interval
  <2>1. Outgoing(n).at <= clock /\ clock <= lastBeat[c] + Interval
    BY DEF TimeInv
  <2> QED
    BY <1>t, <1>1, <2>1
<1>2. CASE \E j \in 1..Outstanding :
              j > Len(answered) /\ Refreshes(j, c) /\ Outgoing(j).at < leases[c]
  <2>1. PICK j \in 1..Outstanding :
           j > Len(answered) /\ Refreshes(j, c) /\ Outgoing(j).at < leases[c]
    BY <1>2
  <2>2. j = n \/ n < j
    BY <1>t, <2>1
  <2>3. Outgoing(n).at <= Outgoing(j).at
    BY <1>t, <2>2 DEF TimeInv
  <2> QED
    BY <1>t, <2>1, <2>3
<1> QED
  BY <1>1, <1>2 DEF Lasts

\* Running the next script.
LEMMA LastingExecute ==
    ASSUME TypeOK, TypeOK', QueueInv, TimeInv, Execute,
           NEW c \in Conns, Admitted(c), ~released[c], Lasts(c), WillLast(c)
    PROVE  Lasts(c)' /\ WillLast(c)'
<1>1. PICK s \in Script : s = Head(pending)
  BY HeadPending DEF Execute
<1>2. /\ pending # <<>> /\ leases' = Effect(s) /\ UNCHANGED lastBeat
  BY <1>1 DEF Execute, serviceVars
<1>b. lastBeat'[c] = lastBeat[c]
  BY <1>2
<1>3. s.at \in Nat /\ s.conn \in Conns /\ s.op \in Scripts
  BY DEF Script
<1>4. PICK n \in 1..Outstanding : n = Len(answered) + 1 /\ Outgoing(n) = s
  BY <1>1, <1>2, OutgoingTyped
<1>5. Outstanding' = Outstanding /\ \A i \in 1..Outstanding : Outgoing(i)' = Outgoing(i)
  BY SameOutgoing
<1>6. Len(answered') = Len(answered) + 1 /\ Len(answered) \in Nat
  <2>1. PICK result \in {"yes", "no"} : answered' = Answer(s, result)
    BY <1>1 DEF Execute
  <2> QED
    BY <2>1 DEF Answer, TypeOK
<1>7. WillLast(c)'
  BY <1>2, <1>5 DEF WillLast, Refreshes
<1>8. leases[c] > s.at
  BY <1>4, LastsPastHead
<1>t. leases[c] \in Nat /\ lastBeat[c] \in Nat /\ Ttl \in Nat /\ Interval \in Nat
      /\ Ttl > Interval
  BY QuotaAssumption, HeartbeatInTime DEF TypeOK
<1>9. ASSUME s.op = "refresh", s.conn = c PROVE Lasts(c)'
  <2>1. Pruned(s.at) \in [Conns -> Nat] /\ Pruned(s.at)[c] = leases[c] /\ leases[c] > 0
    <3>1. ~(leases[c] <= s.at) /\ leases[c] > 0
      BY <1>t, <1>3, <1>8
    <3> QED
      BY <3>1 DEF Pruned, TypeOK
  <2>2. RefreshGrants(s)
    BY <1>9, <2>1 DEF RefreshGrants, Members
  <2>3. leases'[c] = s.at + Ttl
    BY <1>2, <1>9, <2>1, <2>2 DEF Effect, RefreshEffect
  <2>4. CASE s.at = lastBeat[c]
    <3>1. leases'[c] > lastBeat'[c] + Interval
      BY <1>t, <1>b, <2>3, <2>4
    <3> QED
      BY <3>1 DEF Lasts
  <2>5. CASE \E j \in 1..Outstanding :
                j > n /\ Refreshes(j, c) /\ Outgoing(j).at <= s.at + Interval
    <3>1. PICK j \in 1..Outstanding :
             j > n /\ Refreshes(j, c) /\ Outgoing(j).at <= s.at + Interval
      BY <2>5
    <3>2. Outgoing(j).at \in Nat
      BY OutgoingTyped DEF Script
    <3>3. j > Len(answered')
      BY <1>4, <1>6, <3>1
    <3>4. Outgoing(j).at < leases'[c]
      BY <1>t, <1>3, <2>3, <3>1, <3>2
    <3>5. j \in 1..Outstanding' /\ Outgoing(j)' = Outgoing(j)
      BY <1>5
    <3> QED
      BY <3>1, <3>3, <3>4, <3>5 DEF Lasts, Refreshes
  <2>6. Refreshes(n, c)
    BY <1>4, <1>9 DEF Refreshes
  <2> QED
    BY <1>4, <2>4, <2>5, <2>6 DEF WillLast
<1>10. ASSUME ~(s.op = "refresh" /\ s.conn = c) PROVE Lasts(c)'
  <2>1. s.conn # c
    <3> SUFFICES ASSUME s.conn = c PROVE FALSE
      OBVIOUS
    <3>1. s.op # "acquire"
      BY <1>4 DEF QueueInv, Admitted
    <3>2. s.op # "release"
      BY <1>4 DEF TimeInv
    <3> QED
      BY <1>3, <1>10, <3>1, <3>2 DEF Scripts
  <2>2. leases'[c] = leases[c]
    BY <1>2, <1>8, <2>1, OthersLease
  <2>3. CASE leases[c] > lastBeat[c] + Interval
    BY <1>b, <2>2, <2>3 DEF Lasts
  <2>4. CASE \E j \in 1..Outstanding :
                j > Len(answered) /\ Refreshes(j, c) /\ Outgoing(j).at < leases[c]
    <3>1. PICK j \in 1..Outstanding :
             j > Len(answered) /\ Refreshes(j, c) /\ Outgoing(j).at < leases[c]
      BY <2>4
    <3>2. j # n
      BY <1>4, <2>1, <3>1 DEF Refreshes
    <3>3. j > Len(answered')
      BY <1>4, <1>6, <3>1, <3>2
    <3>4. j \in 1..Outstanding' /\ Outgoing(j)' = Outgoing(j)
      BY <1>5
    <3> QED
      BY <2>2, <3>1, <3>3, <3>4 DEF Lasts, Refreshes
  <2> QED
    BY <2>3, <2>4 DEF Lasts
<1> QED
  BY <1>7, <1>9, <1>10

LEMMA LastingStep ==
    TypeOK /\ TypeOK' /\ QueueInv /\ TimeInv /\ GrantedInv /\ LastingInv /\ [Next]_vars
        => LastingInv'
<1> SUFFICES ASSUME TypeOK, TypeOK', QueueInv, TimeInv, GrantedInv, LastingInv, [Next]_vars,
                    NEW c \in Conns, Admitted(c)', ~released'[c], c \notin erred'
             PROVE  Lasts(c)' /\ WillLast(c)'
  BY DEF LastingInv
<1>i. Admitted(c) /\ ~released[c] /\ c \notin erred => Lasts(c) /\ WillLast(c)
  BY DEF LastingInv
<1>t. /\ Len(answered) \in Nat /\ clock \in Nat /\ Interval \in Nat /\ Ttl \in Nat
      /\ MaxDelay \in Nat /\ MaxDelay + Interval < Ttl
  BY QuotaAssumption, HeartbeatInTime DEF TypeOK
\* Steps that handle a reply or give back the quota of a connection.
<1>k. ASSUME NEW k \in {0, 1},
             \/ k = 0 /\ UNCHANGED answered
             \/ k = 1 /\ answered # <<>> /\ answered' = Tail(answered),
             NEW d \in Conns, UNCHANGED pending \/ ReleaseQuota(d),
             UNCHANGED <<leases, erred>>, lastBeat'[c] = lastBeat[c],
             Admitted(c), released[c] => released'[c]
      PROVE  Lasts(c)' /\ WillLast(c)'
  <2>1. UNCHANGED pending \/ pending' = Send("release", d)
    BY <1>k DEF ReleaseQuota
  <2>2. Lasts(c) /\ WillLast(c)
    BY <1>i, <1>k
  <2> QED
    BY <1>k, <2>1, <2>2, LastingKept DEF Scripts
<1>1. ASSUME Execute PROVE Lasts(c)' /\ WillLast(c)'
  <2>1. Admitted(c) /\ ~released[c] /\ c \notin erred
    BY <1>1 DEF Execute, serviceVars, Admitted
  <2> QED
    BY <1>1, <1>i, <2>1, LastingExecute
<1>2. ASSUME ExecuteError PROVE Lasts(c)' /\ WillLast(c)'
  <2>1. PICK s \in Script : s = Head(pending)
    BY <1>2, HeadPending DEF ExecuteError
  <2>2. /\ pending # <<>> /\ UNCHANGED <<leases, lastBeat, phase, released>>
        /\ erred' = IF s.op = "refresh" THEN erred \cup {s.conn} ELSE erred
        /\ answered' = Answer(s, "error")
    BY <1>2, <2>1 DEF ExecuteError, serviceVars
  <2>3. Lasts(c) /\ WillLast(c)
    BY <1>i, <2>2 DEF Admitted
  <2>4. ~(s.op = "refresh" /\ s.conn = c)
    BY <2>2
  <2>5. PICK n \in 1..Outstanding : n = Len(answered) + 1 /\ Outgoing(n) = s
    BY <2>1, <2>2, OutgoingTyped
  <2>6. Outstanding' = Outstanding /\ \A i \in 1..Outstanding : Outgoing(i)' = Outgoing(i)
    BY <1>2, SameOutgoing
  <2>7. Len(answered') = Len(answered) + 1
    BY <2>2 DEF Answer, TypeOK
  <2>8. WillLast(c)'
    BY <2>2, <2>3, <2>6 DEF WillLast, Refreshes
  <2>9. CASE leases[c] > lastBeat[c] + Interval
    BY <2>2, <2>8, <2>9 DEF Lasts
  <2>10. CASE \E j \in 1..Outstanding :
                 j > Len(answered) /\ Refreshes(j, c) /\ Outgoing(j).at < leases[c]
    <3>1. PICK j \in 1..Outstanding :
             j > Len(answered) /\ Refreshes(j, c) /\ Outgoing(j).at < leases[c]
      BY <2>10
    <3>2. j # n
      BY <2>4, <2>5, <3>1 DEF Refreshes
    <3>3. j > Len(answered')
      BY <1>t, <2>5, <2>7, <3>1, <3>2
    <3>4. j \in 1..Outstanding' /\ Outgoing(j)' = Outgoing(j)
      BY <2>6
    <3> QED
      BY <2>2, <2>8, <3>1, <3>3, <3>4 DEF Lasts, Refreshes
  <2> QED
    BY <2>3, <2>9, <2>10 DEF Lasts
<1>3. ASSUME ConnectionLost PROVE Lasts(c)' /\ WillLast(c)'
  <2>1. UNCHANGED <<leases, lastBeat, phase, released, erred>> /\ Len(answered') = 0
    BY <1>3 DEF ConnectionLost, serviceVars
  <2>2. Lasts(c) /\ WillLast(c)
    BY <1>i, <2>1 DEF Admitted
  <2>3. Outstanding' = Outstanding /\ \A i \in 1..Outstanding : Outgoing(i)' = Outgoing(i)
    BY <1>3, SameOutgoing
  <2>4. WillLast(c)'
    BY <2>1, <2>2, <2>3 DEF WillLast, Refreshes
  <2>5. \A j \in 1..Outstanding : j > Len(answered')
    BY <2>1
  <2>6. Lasts(c)'
    BY <2>1, <2>2, <2>3, <2>5 DEF Lasts, Refreshes
  <2> QED
    BY <2>4, <2>6
<1>4. ASSUME NEW d \in Conns, RequestOpen(d) PROVE Lasts(c)' /\ WillLast(c)'
  <2>1. /\ pending' = Send("acquire", d) /\ UNCHANGED <<leases, lastBeat, released, answered, erred>>
        /\ phase' = [phase EXCEPT ![d] = "acquiring"]
    BY <1>4 DEF RequestOpen, historyVars
  <2>2. Admitted(c)
    BY <2>1 DEF Admitted, TypeOK
  <2>3. Lasts(c) /\ WillLast(c)
    BY <1>i, <2>1, <2>2
  <2> QED
    BY <2>1, <2>3, LastingKept DEF Scripts
<1>5. ASSUME AcquireReply PROVE Lasts(c)' /\ WillLast(c)'
  <2>1. /\ answered # <<>> /\ Head(answered).op = "acquire" /\ answered' = Tail(answered)
        /\ UNCHANGED <<clock, pending, released, leases, erred>>
    BY <1>5 DEF AcquireReply, NextReply, historyVars
  <2>2. PICK d \in Conns : d = Head(answered).conn
    BY <2>1, HeadAnswered
  <2>3. \/ /\ phase' = [phase EXCEPT ![d] = "registering"]
           /\ lastBeat' = [lastBeat EXCEPT ![d] = clock]
           /\ Head(answered).result = "yes"
        \/ /\ phase' = [phase EXCEPT ![d] = "refused"]
           /\ UNCHANGED lastBeat
    BY <1>5, <2>2 DEF AcquireReply
  <2>4. CASE c # d
    <3>1. Admitted(c) /\ lastBeat'[c] = lastBeat[c]
      BY <2>3, <2>4 DEF Admitted, TypeOK
    <3> QED
      BY <1>k, <2>1, <2>2, <3>1
  <2>5. CASE c = d
    <3>1. Head(answered).result = "yes" /\ lastBeat'[c] = clock
      BY <2>3, <2>5 DEF Admitted, TypeOK
    <3>2. 1 \in 1..Len(answered) /\ Head(answered) = answered[1] /\ Head(answered) \in Reply
      BY <2>1, HeadAnswered DEF TypeOK
    <3>3. /\ 1 \in 1..Outstanding /\ Outgoing(1).op = "acquire" /\ Outgoing(1).conn = c
          /\ Outgoing(1).at = Head(answered).at
      <4>1. 1 <= Len(answered)
        BY <1>t, <3>2
      <4> QED
        BY <2>1, <2>2, <2>5, <3>2, <4>1, OutgoingTyped DEF Outgoing
    <3>4. phase[c] = "acquiring" /\ ~released[c]
      BY <3>3 DEF QueueInv
    <3>5. Lasts(c)'
      <4>1. leases[c] = Head(answered).at + Ttl
        BY <2>1, <2>2, <2>5, <3>1, <3>2 DEF GrantedInv
      <4>2. clock <= Head(answered).at + MaxDelay /\ Head(answered).at \in Nat
        BY <3>2, <3>3 DEF TimeInv, Reply
      <4>3. leases'[c] > lastBeat'[c] + Interval
        BY <1>t, <2>1, <3>1, <4>1, <4>2
      <4> QED
        BY <4>3 DEF Lasts
    <3>6. ASSUME NEW i \in 1..Outstanding' PROVE ~Refreshes(i, c)'
      <4>1. i + 1 \in 1..Outstanding /\ Outgoing(i)' = Outgoing(i + 1)
        <5>1. \A o \in Scripts, e \in Conns : pending # Send(o, e)
          BY SendNew
        <5>2. "acquire" \in Scripts
          BY DEF Scripts
        <5> QED
          BY <2>1, <2>2, <5>1, <5>2, Moves
      <4>2. ~Refreshes(i + 1, c)
        BY <3>4, <4>1 DEF QueueInv, Admitted, Refreshes
      <4> QED
        BY <4>1, <4>2 DEF Refreshes
    <3> QED
      BY <3>5, <3>6 DEF WillLast
  <2> QED
    BY <2>4, <2>5
<1>6. ASSUME NEW d \in Conns, Registered(d) \/ BrokerCloses(d) PROVE Lasts(c)' /\ WillLast(c)'
  <2>1. UNCHANGED <<answered, pending, released, leases, lastBeat, erred>>
    BY <1>6 DEF Registered, BrokerCloses, redisVars, historyVars
  <2>2. Admitted(c)
    BY <1>6 DEF Registered, BrokerCloses, Admitted, TypeOK
  <2> QED
    BY <1>k, <2>1, <2>2
<1>7. ASSUME NEW d \in Conns, RegisterFails(d) PROVE Lasts(c)' /\ WillLast(c)'
  <2>1. UNCHANGED <<answered, leases, lastBeat, erred>> /\ ReleaseQuota(d)
    BY <1>7 DEF RegisterFails, historyVars
  <2>2. Admitted(c) /\ (released[c] => released'[c])
    BY <1>7, <2>1, QuotaGivenBack DEF RegisterFails, Admitted, TypeOK
  <2> QED
    BY <1>k, <2>1, <2>2
<1>8. ASSUME NEW d \in Conns, ResponseClose(d) PROVE Lasts(c)' /\ WillLast(c)'
  <2>1. UNCHANGED <<answered, leases, lastBeat, erred, phase>>
    BY <1>8 DEF ResponseClose
  <2>2. ReleaseQuota(d) \/ UNCHANGED <<released, pending>>
    BY <1>8 DEF ResponseClose
  <2>3. released[c] => released'[c]
    BY <2>2, QuotaGivenBack
  <2> QED
    BY <1>k, <2>1, <2>2, <2>3 DEF Admitted
<1>9. ASSUME NEW d \in Conns, Heartbeat(d) PROVE Lasts(c)' /\ WillLast(c)'
  <2>1. /\ pending' = Send("refresh", d) /\ UNCHANGED <<answered, leases, erred, phase, released>>
        /\ lastBeat' = [lastBeat EXCEPT ![d] = clock]
    BY <1>9 DEF Heartbeat, historyVars
  <2>2. Lasts(c) /\ WillLast(c)
    BY <1>i, <2>1 DEF Admitted
  <2>3. CASE c = d
    BY <1>9, <2>2, <2>3, LastingBeat
  <2>4. CASE c # d
    <3>1. lastBeat'[c] = lastBeat[c]
      BY <2>1, <2>4 DEF TypeOK
    <3> QED
      BY <2>1, <2>2, <2>4, <3>1, LastingKept DEF Scripts
  <2> QED
    BY <2>3, <2>4
<1>10. ASSUME RefreshReply PROVE Lasts(c)' /\ WillLast(c)'
  <2>1. /\ answered # <<>> /\ answered' = Tail(answered)
        /\ UNCHANGED <<leases, lastBeat, erred, phase>>
    BY <1>10 DEF RefreshReply, NextReply, historyVars
  <2>2. PICK d \in Conns : d = Head(answered).conn
    BY <2>1, HeadAnswered
  <2>3. ReleaseQuota(d) \/ UNCHANGED <<released, pending>>
    BY <1>10, <2>2 DEF RefreshReply
  <2>4. released[c] => released'[c]
    BY <2>3, QuotaGivenBack
  <2> QED
    BY <1>k, <2>1, <2>3, <2>4 DEF Admitted
<1>11. ASSUME ReleaseReply PROVE Lasts(c)' /\ WillLast(c)'
  <2>1. /\ answered # <<>> /\ answered' = Tail(answered)
        /\ UNCHANGED <<leases, lastBeat, erred, phase, released, pending>>
    BY <1>11 DEF ReleaseReply, NextReply, serviceVars, historyVars
  <2> QED
    BY <1>k, <2>1 DEF Admitted
<1>12. ASSUME Restart PROVE FALSE
  BY <1>12 DEF Restart, Admitted
<1>13. ASSUME UNCHANGED <<serviceVars, redisVars, erred>> PROVE Lasts(c)' /\ WillLast(c)'
  <2>1. UNCHANGED <<leases, lastBeat, phase, released, pending, answered, erred>>
    BY <1>13 DEF serviceVars, redisVars
  <2> QED
    BY <1>k, <2>1 DEF Admitted
<1> QED
  BY <1>1, <1>2, <1>3, <1>4, <1>5, <1>6, <1>7, <1>8, <1>9, <1>10, <1>11, <1>12, <1>13
  DEF Next, Tick, vars, historyVars

\* The inductive invariant of the leases: the scripts are timely, a granted
\* lease is still there when its reply arrives, and the lease of a stream
\* lasts until the next refresh of it has run.
THEOREM LeasesLast == Spec => [](TimeInv /\ GrantedInv /\ LastingInv)
<1>1. Init => TimeInv /\ GrantedInv /\ LastingInv
  <2> SUFFICES ASSUME Init PROVE TimeInv /\ GrantedInv /\ LastingInv
    OBVIOUS
  <2>1. GrantedInv
    BY DEF Init, GrantedInv
  <2>2. LastingInv
    BY DEF Init, LastingInv, Admitted
  <2> QED
    BY <2>1, <2>2, TimeInit
<1> QED
  BY <1>1, TimeStep, GrantedStep, LastingStep, TypeCorrect, QueueInvariant, PTL DEF Spec

LEMMA LiveStreamsHaveLeases ==
    ASSUME TypeOK, TimeInv, LastingInv, LeasesWithinQuota
    PROVE  LiveStreamsWithinLimit
<1> DEFINE Live == {c \in Conns \ erred : Admitted(c) /\ response[c] = "live"}
<1>1. ASSUME NEW c \in Live PROVE c \in Members(leases)
  <2>1. c \in Conns /\ Admitted(c) /\ ~released[c] /\ c \notin erred
    BY <1>1 DEF TimeInv
  <2>2. Lasts(c)
    BY <2>1 DEF LastingInv
  <2>3. leases[c] \in Nat /\ lastBeat[c] \in Nat /\ Interval \in Nat
    BY <2>1, QuotaAssumption DEF TypeOK
  <2>4. \A j \in 1..Outstanding : Outgoing(j).at \in Nat
    BY OutgoingTyped DEF Script
  <2>5. leases[c] > 0
    BY <2>2, <2>3, <2>4 DEF Lasts
  <2> QED
    BY <2>1, <2>5 DEF Members
<1>2. Cardinality(Live) <= Cardinality(Members(leases)) /\ IsFiniteSet(Live)
  BY <1>1, MembersFinite, FS_Subset
<1>3. Cardinality(Live) \in Nat /\ Cardinality(Members(leases)) \in Nat /\ MaxConns \in Nat
  BY <1>2, MembersFinite, FS_CardinalityType, QuotaAssumption
<1>4. Cardinality(Live) <= MaxConns
  BY <1>2, <1>3 DEF LeasesWithinQuota
<1> QED
  BY <1>4 DEF LiveStreamsWithinLimit

\* No more streams are live than the key allows, for any number of faults and
\* any times that satisfy HeartbeatInTime: the lease of a live stream is never
\* pruned by the script of another connection.
THEOREM LiveStreamsWithinLimitAlways == Spec => []LiveStreamsWithinLimit
BY LiveStreamsHaveLeases, LeasesLast, LeasesWithinQuotaAlways, TypeCorrect, PTL

=============================================================================
