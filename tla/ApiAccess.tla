----------------------------- MODULE ApiAccess ------------------------------
(***************************************************************************)
(* Who may use the API and how often: POST /graphql with an API key.       *)
(*                                                                         *)
(* A key is a row of apiKeys.  ApiKeyResolver keeps copies of it in three  *)
(* caches (the process's own, a positive and a negative one in Redis),     *)
(* updateApiKey changes the row behind them and deletes the two of Redis,  *)
(* and ApiRateLimiter counts granted requests in a sorted set.  One API    *)
(* process serves many requests; what one has read may be old by the time  *)
(* it writes it.                                                           *)
(*                                                                         *)
(* Time is discrete and only differences of times are kept.  Every call to *)
(* Redis or PostgreSQL is answered within MaxDelay.                        *)
(***************************************************************************)
EXTENDS Integers, FiniteSets

CONSTANTS
    Requests,     \* requests under way
    Limits,       \* values of rpmLimit
    Inactive,     \* what the row says when isActive is false
    LocalTtl, PositiveTtl, NegativeTtl, Window,
    MaxDelay      \* bound: how late the answer to a call may come

ASSUME ApiAccessAssumption ==
    /\ Limits \subseteq Nat \ {0}
    /\ Inactive \notin Limits
    /\ {LocalTtl, PositiveTtl, NegativeTtl, Window, MaxDelay} \subseteq Nat \ {0}
    /\ MaxDelay < Window

VARIABLES
    row,        \* the row of the key
    since,      \* time since the row was last changed
    script,     \* updateApiKey: one run or two have changed the row ("updated",
                \*   "twice"), the last one has "failed" or cleared Redis, with
                \*   a late reader about ("late") or not ("clean")
    local,      \* the process's entry, with the ticks it has left
    positive,   \* the entry api-key:meta:<publicId>
    negative,   \* ticks that api-key:missing:<publicId> has left, 0: no entry
    req,        \* the requests
    members,    \* the sorted set: how many members are how old
    granted     \* history: how many grants are how old

keyVars == <<row, since, script>>
cacheVars == <<local, positive, negative>>
windowVars == <<members, granted>>
vars == <<keyVars, cacheVars, req, windowVars>>

Rows == Limits \cup {Inactive}
NoEntry == [rec |-> Inactive, left |-> 0]
\* What is written between two ticks is gone at the last one after its TTL.
Ticks(ttl) == ttl + 1
Entry(ttl) == {NoEntry} \cup [rec : Limits, left : 1 .. Ticks(ttl)]

\* A cached record was read from the row at most 2 MaxDelay before it was
\* written; it lives for PositiveTtl in Redis, is read within MaxDelay, lives
\* for LocalTtl in the process, and its request is counted within MaxDelay.
StaleBound == 4 * MaxDelay + PositiveTtl + LocalTtl
RejectBound == 2 * MaxDelay + NegativeTtl

\* Members that a call may still find in its window, and grants that matter.
Ages == 0 .. Window + MaxDelay - 1
\* How many there are of some ages: the n-th of age a is <<a, n>>.
AllOf(f, ages) == UNION {{a} \X (1 .. f[a]) : a \in ages}
Total(f, ages) == Cardinality(AllOf(f, ages))

\* "negative", "positive" and "lookup" wait for a read that has not been
\* executed, "hit" and "record" for its answer; "write" and "missing" are a
\* SET under way, "consume" is the rate limiter's script.
Phases == {"idle", "negative", "positive", "hit", "lookup", "record", "write",
           "missing", "rejected", "consume"}
Request == [phase : Phases, rec : Rows, wait : 0 .. MaxDelay]
Idle == [phase |-> "idle", rec |-> Inactive, wait |-> 0]

TypeOK ==
    /\ row \in Rows
    /\ since \in 0 .. StaleBound + 1
    /\ script \in {"updated", "twice", "failed", "clean", "late"}
    /\ local \in Entry(LocalTtl)
    /\ positive \in Entry(PositiveTtl)
    /\ negative \in 0 .. Ticks(NegativeTtl)
    /\ req \in [Requests -> Request]
    /\ members \in [Ages -> Nat]
    /\ granted \in [Ages -> Nat]
    /\ \A a \in Ages : members[a] <= granted[a]

Init ==
    /\ row \in Rows            \* generateApiKey
    /\ since = StaleBound + 1
    /\ script = "clean"
    /\ local = NoEntry /\ positive = NoEntry /\ negative = 0
    /\ req = [r \in Requests |-> Idle]
    /\ members = [a \in Ages |-> 0]
    /\ granted = [a \in Ages |-> 0]

Become(r, phase, rec) == req' = [req EXCEPT ![r] = [phase |-> phase, rec |-> rec, wait |-> 0]]
Leave(r) == Become(r, "idle", Inactive)
Later(x, last) == IF x < last THEN x + 1 ELSE last

-----------------------------------------------------------------------------
(* updateApiKey                                                            *)

\* At most two runs at a time (a bound).
Update(new) ==
    /\ script # "twice"
    /\ new # row
    /\ row' = new
    /\ since' = 0
    /\ script' = IF script = "updated" THEN "twice" ELSE "updated"
    /\ UNCHANGED <<cacheVars, req, windowVars>>

\* Requests that hold the row as it was and are going to write it to Redis.
LateReaders ==
    {r \in Requests : \/ req[r].phase \in {"record", "write"} /\ req[r].rec # row
                      \/ req[r].phase = "missing" /\ row # Inactive}

Runs == script \in {"updated", "twice"}
\* A run is over; another one may still have to clear.
Ends(outcome) == script' = IF script = "twice" THEN "updated" ELSE outcome
Cleared == IF LateReaders = {} THEN "clean" ELSE "late"

\* Mutant of Clear: the negative entry stays.
ClearPositive ==
    /\ Runs
    /\ positive' = NoEntry
    /\ Ends(Cleared)
    /\ UNCHANGED <<row, since, local, negative, req, windowVars>>

\* Redis.del of both entries.
Clear ==
    /\ Runs
    /\ positive' = NoEntry
    /\ negative' = 0
    /\ Ends(Cleared)
    /\ UNCHANGED <<row, since, local, req, windowVars>>

\* Redis.del fails, or the script dies before it.
ClearFails ==
    /\ Runs
    /\ Ends("failed")
    /\ UNCHANGED <<row, since, cacheVars, req, windowVars>>

\* The operator restarts the API, as the script asks for, or it crashes.  What it
\* had sent to Redis may be executed all the same.
Restart ==
    /\ local' = NoEntry
    /\ \E sent \in SUBSET {r \in Requests : req[r].phase \in {"write", "missing", "consume"}} :
          req' = [r \in Requests |-> IF r \in sent THEN req[r] ELSE Idle]
    /\ UNCHANGED <<keyVars, positive, negative, windowVars>>

-----------------------------------------------------------------------------
(* ApiKeyResolver.resolve                                                  *)

\* A well-formed key arrives with the right secret.
Resolve(r) ==
    /\ req[r].phase = "idle"
    /\ IF local # NoEntry THEN Become(r, "consume", local.rec)
                          ELSE Become(r, "negative", Inactive)
    /\ UNCHANGED <<keyVars, cacheVars, windowVars>>

\* Redis or PostgreSQL fails: 503.
Unavailable(r) ==
    /\ req[r].phase \in {"negative", "positive", "hit", "lookup", "record", "consume"}
    /\ Leave(r)
    /\ UNCHANGED <<keyVars, cacheVars, windowVars>>

ReadNegative(r) ==
    /\ req[r].phase = "negative"
    /\ IF negative > 0 THEN Become(r, "rejected", Inactive)
                       ELSE Become(r, "positive", Inactive)
    /\ UNCHANGED <<keyVars, cacheVars, windowVars>>

ReadPositive(r) ==
    /\ req[r].phase = "positive"
    /\ IF positive # NoEntry THEN Become(r, "hit", positive.rec)
                             ELSE Become(r, "lookup", Inactive)
    /\ UNCHANGED <<keyVars, cacheVars, windowVars>>

\* Mutant of Hit: a hit is written back to Redis.
HitWritesBack(r) ==
    /\ req[r].phase = "hit"
    /\ local' = [rec |-> req[r].rec, left |-> Ticks(LocalTtl)]
    /\ Become(r, "write", req[r].rec)
    /\ UNCHANGED <<keyVars, positive, negative, windowVars>>

Hit(r) ==
    /\ req[r].phase = "hit"
    /\ local' = [rec |-> req[r].rec, left |-> Ticks(LocalTtl)]
    /\ Become(r, "consume", req[r].rec)
    /\ UNCHANGED <<keyVars, positive, negative, windowVars>>

\* lookupApiKeyRecord
Lookup(r) ==
    /\ req[r].phase = "lookup"
    /\ Become(r, "record", row)
    /\ UNCHANGED <<keyVars, cacheVars, windowVars>>

\* Mutant of Record: inactive keys are cached like active ones.
RecordInactive(r) ==
    /\ req[r].phase = "record"
    /\ local' = [rec |-> req[r].rec, left |-> Ticks(LocalTtl)]
    /\ Become(r, "write", req[r].rec)
    /\ UNCHANGED <<keyVars, positive, negative, windowVars>>

Record(r) ==
    /\ req[r].phase = "record"
    /\ IF req[r].rec = Inactive
       THEN Become(r, "missing", Inactive) /\ UNCHANGED local
       ELSE /\ local' = [rec |-> req[r].rec, left |-> Ticks(LocalTtl)]
            /\ Become(r, "write", req[r].rec)
    /\ UNCHANGED <<keyVars, positive, negative, windowVars>>

\* cacheMissingPublicId, which may fail.
CacheMissing(r) ==
    /\ req[r].phase = "missing"
    /\ negative' \in {negative, Ticks(NegativeTtl)}
    /\ Become(r, "rejected", Inactive)
    /\ UNCHANGED <<keyVars, local, positive, windowVars>>

\* cacheRecord, which may fail; nobody waits for it, but the connection
\* executes it before the script that counts the request.
CacheRecord(r) ==
    /\ req[r].phase = "write"
    /\ positive' \in {positive, [rec |-> req[r].rec, left |-> Ticks(PositiveTtl)]}
    /\ req' = [req EXCEPT ![r].phase = "consume"]
    /\ UNCHANGED <<keyVars, local, negative, windowVars>>

\* respondWithInvalidApiKey
Reject(r) ==
    /\ req[r].phase = "rejected"
    /\ Leave(r)
    /\ UNCHANGED <<keyVars, cacheVars, windowVars>>

-----------------------------------------------------------------------------
(* ApiRateLimiter.consume: the clock was read when the call was made.      *)

\* ZREMRANGEBYSCORE -inf now - WINDOW_MS.  That the key expires WINDOW plus
\* five seconds after a grant adds nothing: all members are out by then.
InWindow(now) == [a \in Ages |-> IF a >= now + Window THEN 0 ELSE members[a]]

\* Mutant of Grants: one more.
GrantsOneMore(r) == Total(InWindow(req[r].wait), Ages) <= req[r].rec

Grants(r) == Total(InWindow(req[r].wait), Ages) < req[r].rec

\* 200, or 503 when the reply is lost: the request is counted all the same.
Grant(r) ==
    /\ req[r].phase = "consume"
    /\ Grants(r)
    /\ members' = [InWindow(req[r].wait) EXCEPT ![req[r].wait] = @ + 1]
    /\ granted' = [granted EXCEPT ![req[r].wait] = @ + 1]
    /\ Leave(r)
    /\ UNCHANGED <<keyVars, cacheVars>>

\* 429
Limited(r) ==
    /\ req[r].phase = "consume"
    /\ ~Grants(r)
    /\ members' = InWindow(req[r].wait)
    /\ Leave(r)
    /\ UNCHANGED <<keyVars, cacheVars, granted>>

-----------------------------------------------------------------------------

Elapse(entry) == IF entry.left <= 1 THEN NoEntry ELSE [entry EXCEPT !.left = @ - 1]
Older(f) == [a \in Ages |-> IF a = 0 THEN 0 ELSE f[a - 1]]

Tick ==
    /\ \A r \in Requests : req[r].wait < MaxDelay /\ req[r].phase # "rejected"
    /\ since' = Later(since, StaleBound + 1)
    /\ local' = Elapse(local)
    /\ positive' = Elapse(positive)
    /\ negative' = IF negative = 0 THEN 0 ELSE negative - 1
    /\ req' = [r \in Requests |-> IF req[r].phase = "idle" THEN req[r]
                                  ELSE [req[r] EXCEPT !.wait = @ + 1]]
    /\ members' = Older(members)
    /\ granted' = Older(granted)
    /\ UNCHANGED <<row, script>>

Next ==
    \/ \E new \in Rows : Update(new)
    \/ Clear \/ ClearFails \/ Restart \/ Tick
    \/ \E r \in Requests :
          \/ Resolve(r) \/ Unavailable(r) \/ ReadNegative(r) \/ ReadPositive(r)
          \/ Hit(r) \/ Lookup(r) \/ Record(r) \/ CacheMissing(r) \/ CacheRecord(r)
          \/ Reject(r) \/ Grant(r) \/ Limited(r)

Spec == Init /\ [][Next]_vars

-----------------------------------------------------------------------------

\* A change of the key takes hold in bounded time, even if updateApiKey never
\* clears Redis and the API is not restarted: no copy of a copy lives on.  A
\* request is not counted under an old record later than StaleBound after the
\* change, and not rejected for an old one later than RejectBound.
AnswersSoonCurrent ==
    \A r \in Requests :
        /\ req[r].phase = "consume" => req[r].rec = row \/ since <= StaleBound
        /\ req[r].phase = "rejected" => row = Inactive \/ since <= RejectBound

\* Once updateApiKey has cleared Redis, an entry that is not what the row says
\* is there only if a request had read the row before the change and wrote it
\* after the clear.
OnlyLateReadersBringBack ==
    script = "clean" =>
        /\ positive # NoEntry => positive.rec = row
        /\ negative > 0 => row = Inactive

\* A request that is granted leaves no more than its limit of grants in the
\* window before it.  Requests reach Redis in another order than they read
\* the clock, and their records may give different limits: the window is short
\* by MaxDelay.
GrantsWithinLimit ==
    [][\A r \in Requests :
          Grant(r) => Total(granted', {a \in Ages : a >= req[r].wait /\ a < req[r].wait + Window - MaxDelay})
                         <= req[r].rec]_vars
=============================================================================
