----------------------------- MODULE SseLeases -----------------------------
(***************************************************************************)
(* The SSE connection quota of one API key: openRealtimeSseConnection      *)
(* (sseService.ts), the Redis leases of RedisSseConnectionLimiter          *)
(* (connectionLimiter.ts) and the lease heartbeat (sseLeaseHeartbeat.ts).  *)
(*                                                                         *)
(* A lease is a member of a sorted set whose score is its expiry time.     *)
(* Every decision is a Lua script that Redis runs atomically, with the     *)
(* time the API read BEFORE it sent the script.  The client keeps the      *)
(* scripts of the API in order: those not yet executed (pending) and those *)
(* executed whose reply has not been handled (answered).  When the         *)
(* connection to Redis is lost the client sends all of them again, so a    *)
(* script may run twice.                                                   *)
(*                                                                         *)
(* The broker is seen through registerConnection, which resolves some time *)
(* later, and through its right to end a response.  The 'close' listeners  *)
(* are attached only after registerConnection has resolved.                *)
(*                                                                         *)
(* Leases of different API keys live in different Redis keys and never     *)
(* meet, so one key is modelled.                                           *)
(***************************************************************************)
EXTENDS Naturals, Sequences, FiniteSets

CONSTANTS
    Conns,        \* connectionLeaseIds, one per request
    MaxConns,     \* maxSseConnections of the API key
    Ttl,          \* LEASE_TTL_MS
    Interval,     \* LEASE_HEARTBEAT_INTERVAL_MS
    MaxDelay,     \* assumed: a script runs and is answered within this time
    MaxClock,     \* bound: time
    MaxFaults     \* bound: lost Redis connections, script errors and restarts

ASSUME QuotaAssumption ==
    /\ IsFiniteSet(Conns)
    /\ MaxConns \in Nat
    /\ Ttl \in Nat \ {0}
    /\ Interval \in Nat \ {0}
    /\ MaxDelay \in Nat
    /\ MaxClock \in Nat
    /\ MaxFaults \in Nat

\* A heartbeat and its script come in time (the code has 20 s of 60 s).
ASSUME HeartbeatInTime == MaxDelay + Interval < Ttl

VARIABLES
    clock,
    phase,        \* progress of openRealtimeSseConnection
    response,     \* the ServerResponse; "closed" once its 'close' event was emitted
    released,     \* quotaReleased
    lastBeat,     \* when the lease heartbeat was started or last fired
    active,       \* activeByApiKey
    leases,       \* the sorted set: expiry per member, 0 when not a member
    pending,      \* scripts sent and not executed, in order
    answered,     \* scripts executed whose reply is not handled, in order
    closedAt,     \* history: when the response closed
    falseReject,  \* history: an ACQUIRE was refused for leases of long gone clients
    erred,        \* history: connections whose refresh Redis answered with an error
    faults        \* history: faults so far

serviceVars == <<phase, response, released, lastBeat, active>>
redisVars   == <<leases, pending, answered>>
historyVars == <<closedAt, falseReject, erred, faults>>
vars == <<clock, serviceVars, redisVars, historyVars>>

Phases == {"idle", "acquiring", "registering", "open", "refused", "gone"}
Scripts == {"acquire", "refresh", "release"}
Script == [op : Scripts, conn : Conns, at : Nat]
Reply == [op : Scripts, conn : Conns, at : Nat, result : {"yes", "no", "error"}]

TypeOK ==
    /\ clock \in Nat
    /\ phase \in [Conns -> Phases]
    /\ response \in [Conns -> {"none", "live", "ended", "closed"}]
    /\ released \in [Conns -> BOOLEAN]
    /\ lastBeat \in [Conns -> Nat]
    /\ active \in Nat
    /\ leases \in [Conns -> Nat]
    /\ pending \in Seq(Script)
    /\ answered \in Seq(Reply)
    /\ closedAt \in [Conns -> Nat]
    /\ falseReject \in BOOLEAN
    /\ erred \subseteq Conns
    /\ faults \in Nat

Init ==
    /\ clock = 0
    /\ phase = [c \in Conns |-> "idle"]
    /\ response = [c \in Conns |-> "none"]
    /\ released = [c \in Conns |-> FALSE]
    /\ lastBeat = [c \in Conns |-> 0]
    /\ active = 0
    /\ leases = [c \in Conns |-> 0]
    /\ pending = <<>>
    /\ answered = <<>>
    /\ closedAt = [c \in Conns |-> 0]
    /\ falseReject = FALSE
    /\ erred = {}
    /\ faults = 0

\* Connections whose quota is held: onOpen was called and onClose was not.
Admitted(c) == phase[c] \in {"registering", "open"}
Holding == {c \in Conns : Admitted(c) /\ ~released[c]}

Send(op, c) == Append(pending, [op |-> op, conn |-> c, at |-> clock])

-----------------------------------------------------------------------------
(* The scripts.                                                            *)

Members(l) == {c \in Conns : l[c] > 0}

\* ZREMRANGEBYSCORE leaseKey -inf now
Pruned(now) == [c \in Conns |-> IF leases[c] <= now THEN 0 ELSE leases[c]]

\* Mutant of AcquireGrants: one lease more than the limit.
AcquireGrantsOneMore(s) == Cardinality(Members(Pruned(s.at))) <= MaxConns

\* ACQUIRE_SCRIPT: refuse at the limit, else record the lease.
AcquireGrants(s) == Cardinality(Members(Pruned(s.at))) < MaxConns
AcquireEffect(s) ==
    IF AcquireGrants(s)
    THEN [Pruned(s.at) EXCEPT ![s.conn] = s.at + Ttl]
    ELSE Pruned(s.at)

\* Mutant of RefreshGrants: the membership of the lease is not checked.
RefreshGrantsAlways(s) == TRUE

\* REFRESH_SCRIPT: extend the lease if it is still there.
RefreshGrants(s) == s.conn \in Members(Pruned(s.at))
\* Mutant of RefreshEffect: the score of an existing member is kept.
RefreshEffectKeepsExpiry(s) == Pruned(s.at)

RefreshEffect(s) ==
    IF RefreshGrants(s)
    THEN [Pruned(s.at) EXCEPT ![s.conn] = s.at + Ttl]
    ELSE Pruned(s.at)

\* RELEASE_SCRIPT
ReleaseEffect(s) == [leases EXCEPT ![s.conn] = 0]

Grants(s) ==
    \/ s.op = "acquire" /\ AcquireGrants(s)
    \/ s.op = "refresh" /\ RefreshGrants(s)
    \/ s.op = "release"

Effect(s) ==
    CASE s.op = "acquire" -> AcquireEffect(s)
      [] s.op = "refresh" -> RefreshEffect(s)
      [] s.op = "release" -> ReleaseEffect(s)

Answer(s, result) ==
    Append(answered, [op |-> s.op, conn |-> s.conn, at |-> s.at, result |-> result])

\* The leases that may count against the key: the client is there, or its
\* request is still being registered, or its release is on the way, or it left
\* so recently that its last lease may still be running.
Justified ==
    {c \in Members(leases) :
        \/ response[c] # "closed"
        \/ phase[c] = "registering"
        \/ \E i \in 1..Len(pending) : pending[i].op = "release" /\ pending[i].conn = c
        \/ clock < closedAt[c] + Ttl + MaxDelay}

\* Redis runs the oldest script it has not run.
Execute ==
    /\ pending # <<>>
    /\ LET s == Head(pending) IN
        /\ leases' = Effect(s)
        /\ answered' = Answer(s, IF Grants(s) THEN "yes" ELSE "no")
        /\ falseReject' =
             (falseReject \/ ( /\ s.op = "acquire"
                               /\ ~AcquireGrants(s)
                               /\ Cardinality(Justified) < MaxConns ))
    /\ pending' = Tail(pending)
    /\ UNCHANGED <<clock, serviceVars, closedAt, erred, faults>>

\* Redis answers the script with an error and changes nothing.
ExecuteError ==
    /\ pending # <<>>
    /\ faults < MaxFaults
    /\ answered' = Answer(Head(pending), "error")
    /\ pending' = Tail(pending)
    /\ erred' = IF Head(pending).op = "refresh" THEN erred \cup {Head(pending).conn} ELSE erred
    /\ faults' = faults + 1
    /\ UNCHANGED <<clock, serviceVars, leases, closedAt, falseReject>>

\* The replies are lost with the connection; the client sends again every
\* script whose reply it has not seen.
ConnectionLost ==
    /\ answered # <<>>
    /\ faults < MaxFaults
    /\ pending' = [i \in 1..Len(answered) |->
                     [op |-> answered[i].op, conn |-> answered[i].conn,
                      at |-> answered[i].at]] \o pending
    /\ answered' = <<>>
    /\ faults' = faults + 1
    /\ UNCHANGED <<clock, serviceVars, leases, closedAt, falseReject, erred>>

-----------------------------------------------------------------------------
(* The request handler.                                                    *)

\* openRealtimeSseConnection up to the await of tryOpen.
RequestOpen(c) ==
    /\ phase[c] = "idle"
    /\ phase' = [phase EXCEPT ![c] = "acquiring"]
    /\ pending' = Send("acquire", c)
    /\ UNCHANGED <<clock, response, released, lastBeat, active, leases, answered,
                   historyVars>>

NextReply(op) == answered # <<>> /\ Head(answered).op = op

\* tryOpen resolves or rejects: 200, or 429, or 503.
AcquireReply ==
    /\ NextReply("acquire")
    /\ LET r == Head(answered) IN
        IF r.result = "yes"
        THEN /\ phase' = [phase EXCEPT ![r.conn] = "registering"]
             /\ response' = [response EXCEPT ![r.conn] = IF @ = "closed" THEN @ ELSE "live"]
             /\ lastBeat' = [lastBeat EXCEPT ![r.conn] = clock]
             /\ active' = active + 1
        ELSE /\ phase' = [phase EXCEPT ![r.conn] = "refused"]
             /\ UNCHANGED <<response, lastBeat, active>>
    /\ answered' = Tail(answered)
    /\ UNCHANGED <<clock, released, leases, pending, historyVars>>

\* Mutant of ReleaseQuota: nothing remembers that the quota was released, and
\* the guard of onClose is gone.
ReleaseQuotaTwice(c) ==
    /\ released' = [released EXCEPT ![c] = TRUE]
    /\ active' = active - 1
    /\ pending' = Send("release", c)

\* releaseQuota, effective once: the heartbeat stops, the count drops and the
\* release script is sent.
ReleaseQuota(c) ==
    IF released[c]
    THEN UNCHANGED <<released, active, pending>>
    ELSE /\ released' = [released EXCEPT ![c] = TRUE]
         /\ active' = IF active > 0 THEN active - 1 ELSE 0
         /\ pending' = Send("release", c)

EndResponse(c) ==
    response' = [response EXCEPT ![c] = IF @ = "live" THEN "ended" ELSE @]

\* registerConnection resolves: the 'close' listeners are attached.
Registered(c) ==
    /\ phase[c] = "registering"
    /\ phase' = [phase EXCEPT ![c] = "open"]
    /\ UNCHANGED <<clock, response, released, lastBeat, active, redisVars, historyVars>>

\* registerConnection rejects.
RegisterFails(c) ==
    /\ phase[c] = "registering"
    /\ phase' = [phase EXCEPT ![c] = "gone"]
    /\ ReleaseQuota(c)
    /\ EndResponse(c)
    /\ UNCHANGED <<clock, lastBeat, leases, answered, historyVars>>

\* The broker cleans the connection up (backpressure, write error or
\* timeout) and ends its response.
BrokerCloses(c) ==
    /\ Admitted(c)
    /\ response[c] = "live"
    /\ EndResponse(c)
    /\ UNCHANGED <<clock, phase, released, lastBeat, active, redisVars, historyVars>>

\* The response emits 'close': the client left or the ended response was
\* delivered.  Only an attached listener gives the quota back.
ResponseClose(c) ==
    /\ phase[c] \in {"acquiring", "registering", "open"}
    /\ response[c] # "closed"
    /\ response' = [response EXCEPT ![c] = "closed"]
    /\ closedAt' = [closedAt EXCEPT ![c] = clock]
    /\ IF phase[c] = "open"
       THEN ReleaseQuota(c)
       ELSE UNCHANGED <<released, active, pending>>
    /\ UNCHANGED <<clock, phase, lastBeat, leases, answered, falseReject, erred, faults>>

-----------------------------------------------------------------------------
(* The lease heartbeat.                                                    *)

\* The interval fires: refreshSseLeaseOrClose up to its await.
Heartbeat(c) ==
    /\ c \in Holding
    /\ clock = lastBeat[c] + Interval
    /\ lastBeat' = [lastBeat EXCEPT ![c] = clock]
    /\ pending' = Send("refresh", c)
    /\ UNCHANGED <<clock, phase, response, released, active, leases, answered,
                   historyVars>>

\* The rest of it: a lease that is gone or an error closes the stream.
RefreshReply ==
    /\ NextReply("refresh")
    /\ LET r == Head(answered) IN
        IF r.result = "yes"
        THEN UNCHANGED <<released, active, pending, response>>
        ELSE ReleaseQuota(r.conn) /\ EndResponse(r.conn)
    /\ answered' = Tail(answered)
    /\ UNCHANGED <<clock, phase, lastBeat, leases, historyVars>>

\* releaseLease is not awaited; a failure is only logged.
ReleaseReply ==
    /\ NextReply("release")
    /\ answered' = Tail(answered)
    /\ UNCHANGED <<clock, serviceVars, leases, pending, historyVars>>

-----------------------------------------------------------------------------
(* Time, and the process.                                                  *)

\* Timers fire on time and no script or reply waits longer than MaxDelay.
Tick ==
    /\ clock < MaxClock
    /\ \A c \in Holding : clock < lastBeat[c] + Interval
    /\ \A i \in 1..Len(pending) : clock < pending[i].at + MaxDelay
    /\ \A i \in 1..Len(answered) : clock < answered[i].at + MaxDelay
    /\ clock' = clock + 1
    /\ UNCHANGED <<serviceVars, redisVars, historyVars>>

\* The API dies and starts again: every connection is gone, and
\* initializeRealtimeSse clears the leases before the server listens.
Restart ==
    /\ faults < MaxFaults
    /\ \E c \in Conns : phase[c] # "idle"
    /\ phase' = [c \in Conns |-> IF phase[c] = "idle" THEN "idle" ELSE "gone"]
    /\ response' = [c \in Conns |-> IF phase[c] = "idle" THEN "none" ELSE "closed"]
    /\ closedAt' = [c \in Conns |-> IF response[c] = "closed" THEN closedAt[c] ELSE clock]
    /\ active' = 0
    /\ leases' = [c \in Conns |-> 0]
    /\ pending' = <<>>
    /\ answered' = <<>>
    /\ faults' = faults + 1
    /\ UNCHANGED <<clock, released, lastBeat, falseReject, erred>>

Next ==
    \/ Execute \/ ExecuteError \/ ConnectionLost
    \/ AcquireReply \/ RefreshReply \/ ReleaseReply
    \/ \E c \in Conns :
        \/ RequestOpen(c) \/ Registered(c) \/ RegisterFails(c)
        \/ BrokerCloses(c) \/ ResponseClose(c) \/ Heartbeat(c)
    \/ Tick
    \/ Restart

Spec == Init /\ [][Next]_vars

-----------------------------------------------------------------------------
(* Properties.                                                             *)

\* Redis never holds more leases of a key than its limit, whatever scripts
\* run twice, late or for connections that are gone.
LeasesWithinQuota == Cardinality(Members(leases)) <= MaxConns

\* No more streams are live than the key allows.  The lease of a live stream
\* must never be pruned by somebody else's script: that rests on the order
\* of the scripts, on the heartbeat and on HeartbeatInTime.  A stream whose
\* refresh Redis answered with an error is not counted: its lease may run out
\* before the reply ends it, and that reply may be lost with the connection.
LiveStreamsWithinLimit ==
    Cardinality({c \in Conns \ erred : Admitted(c) /\ response[c] = "live"}) <= MaxConns

\* The in-memory count behind the metrics is the number of connections that
\* hold quota, though five paths may release the quota of one connection.
ActiveCountsHolders == active = Cardinality(Holding)

\* A lease that expired or was released is never brought back for a
\* connection that has been admitted (test "refreshLease does not revive an
\* expired lease"), not even by a script that runs twice.
NoRevival ==
    [][\A c \in Conns :
          leases[c] = 0 /\ Admitted(c) => leases'[c] = 0]_vars

\* A 429 means that the limit is really reached ("max concurrent SSE
\* connections reached for the API key"): it is not given for the lease of a
\* client that left more than a lease lifetime ago and whose request is done.
RejectedOnlyAtLimit == ~falseReject

=============================================================================
