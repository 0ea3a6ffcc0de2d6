-------------------------- MODULE ApiAccess_proofs --------------------------
(***************************************************************************)
(* Proofs about the API key resolver, its caches and the rate limiter for  *)
(* any requests, limits, lifetimes and delays: type correctness, how long  *)
(* a changed key can be answered for as it was, what a cleared cache       *)
(* holds, and that no more is granted than the limit.                      *)
(***************************************************************************)
EXTENDS ApiAccess, FiniteSetTheorems, FunctionTheorems, TLAPS

\* The lifetimes are numbers.
LEMMA Lifetimes ==
    /\ LocalTtl \in Nat /\ PositiveTtl \in Nat /\ NegativeTtl \in Nat
    /\ Window \in Nat /\ MaxDelay \in Nat /\ MaxDelay < Window
    /\ LocalTtl > 0 /\ PositiveTtl > 0 /\ NegativeTtl > 0 /\ MaxDelay > 0
    /\ StaleBound \in Nat /\ Limits \subseteq Nat /\ Inactive \notin Limits
BY ApiAccessAssumption DEF StaleBound

-----------------------------------------------------------------------------
(* Type correctness.                                                       *)

\* Only active keys are written to the process's cache and to Redis, and counted.
WritesActive ==
    \A r \in Requests : req[r].phase \in {"hit", "write", "consume"} => req[r].rec \in Limits

KeyTyped ==
    /\ row \in Rows
    /\ since \in 0 .. StaleBound + 1
    /\ script \in {"updated", "twice", "failed", "clean", "late"}
CachesTyped ==
    /\ local \in Entry(LocalTtl)
    /\ positive \in Entry(PositiveTtl)
    /\ negative \in 0 .. Ticks(NegativeTtl)
RequestsTyped == req \in [Requests -> Request]
WindowTyped ==
    /\ members \in [Ages -> Nat]
    /\ granted \in [Ages -> Nat]
    /\ \A a \in Ages : members[a] <= granted[a]

LEMMA TypedParts == TypeOK <=> KeyTyped /\ CachesTyped /\ RequestsTyped /\ WindowTyped
BY DEF TypeOK, KeyTyped, CachesTyped, RequestsTyped, WindowTyped

\* What an entry of a cache is.
LEMMA EntryParts ==
    ASSUME NEW ttl \in Nat, NEW e \in Entry(ttl)
    PROVE  /\ e.rec \in Rows /\ e.left \in 0 .. Ticks(ttl)
           /\ e # NoEntry => e.rec \in Limits /\ e.left >= 1
BY DEF Entry, NoEntry, Rows, Ticks

LEMMA FullEntry ==
    ASSUME NEW ttl \in Nat, NEW x \in Limits
    PROVE  [rec |-> x, left |-> Ticks(ttl)] \in Entry(ttl)
BY DEF Entry, Ticks

LEMMA Elapsed ==
    ASSUME NEW ttl \in Nat, NEW e \in Entry(ttl)
    PROVE  /\ Elapse(e) \in Entry(ttl)
           /\ Elapse(e) # NoEntry => e # NoEntry /\ Elapse(e).rec = e.rec
                                     /\ Elapse(e).left = e.left - 1
<1>1. CASE e.left <= 1
  BY <1>1 DEF Elapse, Entry
<1>2. CASE ~(e.left <= 1)
  <2>1. e \in [rec : Limits, left : 1 .. Ticks(ttl)] /\ e # NoEntry
    BY <1>2 DEF Entry, NoEntry
  <2>2. e.left - 1 \in 1 .. Ticks(ttl)
    BY <1>2, <2>1 DEF Ticks
  <2>3. Elapse(e) = [rec |-> e.rec, left |-> e.left - 1]
    BY <1>2, <2>1 DEF Elapse
  <2> QED
    BY <2>1, <2>2, <2>3 DEF Entry
<1> QED
  BY <1>1, <1>2

\* A request takes its next step.
LEMMA BecomeTyped ==
    ASSUME RequestsTyped, WritesActive, NEW r \in Requests, NEW phase \in Phases, NEW x \in Rows,
           Become(r, phase, x), phase \in {"hit", "write", "consume"} => x \in Limits
    PROVE  RequestsTyped' /\ WritesActive'
<1>1. [phase |-> phase, rec |-> x, wait |-> 0] \in Request
  BY Lifetimes DEF Request
<1>2. RequestsTyped'
  BY <1>1 DEF Become, RequestsTyped
<1> QED
  BY <1>2 DEF Become, RequestsTyped, WritesActive

LEMMA LeaveTyped ==
    ASSUME RequestsTyped, WritesActive, NEW r \in Requests, Leave(r)
    PROVE  RequestsTyped' /\ WritesActive'
BY BecomeTyped DEF Leave, Phases, Rows

LEMMA TypeInit == Init => TypeOK /\ WritesActive
<1> SUFFICES ASSUME Init PROVE TypeOK /\ WritesActive
  OBVIOUS
<1>1. KeyTyped
  BY Lifetimes DEF Init, KeyTyped
<1>2. CachesTyped
  BY Lifetimes DEF Init, CachesTyped, Entry, Ticks
<1>3. RequestsTyped /\ WritesActive
  <2>1. Idle \in Request
    BY Lifetimes DEF Idle, Request, Phases, Rows
  <2> QED
    BY <2>1 DEF Init, RequestsTyped, WritesActive, Idle
<1>4. WindowTyped
  BY DEF Init, WindowTyped
<1> QED
  BY <1>1, <1>2, <1>3, <1>4, TypedParts

LEMMA TypeStep == TypeOK /\ WritesActive /\ [Next]_vars => TypeOK' /\ WritesActive'
<1> SUFFICES ASSUME TypeOK, WritesActive, [Next]_vars PROVE TypeOK' /\ WritesActive'
  OBVIOUS
<1> SUFFICES (KeyTyped /\ CachesTyped /\ RequestsTyped /\ WindowTyped /\ WritesActive)'
  BY DEF TypeOK, KeyTyped, CachesTyped, RequestsTyped, WindowTyped
<1> DEFINE Goal == KeyTyped /\ CachesTyped /\ RequestsTyped /\ WindowTyped /\ WritesActive
<1>0. Goal
  BY TypedParts
<1>k. UNCHANGED keyVars => KeyTyped'
  BY <1>0 DEF keyVars, KeyTyped
<1>c. UNCHANGED cacheVars => CachesTyped'
  BY <1>0 DEF cacheVars, CachesTyped
<1>r. UNCHANGED req => RequestsTyped' /\ WritesActive'
  BY <1>0 DEF RequestsTyped, WritesActive
<1>w. UNCHANGED windowVars => WindowTyped'
  BY <1>0 DEF windowVars, WindowTyped
<1>p. \A r \in Requests : req[r] \in Request /\ req[r].rec \in Rows /\ req[r].wait \in 0 .. MaxDelay
  BY <1>0 DEF RequestsTyped, Request
<1>i. Inactive \in Rows /\ NoEntry \in Entry(LocalTtl) /\ NoEntry \in Entry(PositiveTtl)
  BY DEF Rows, Entry
<1>1. ASSUME NEW new \in Rows, Update(new) PROVE Goal'
  <2>1. KeyTyped'
    BY <1>1, Lifetimes DEF Update, KeyTyped
  <2> QED
    BY <1>1, <1>c, <1>r, <1>w, <2>1 DEF Update
<1>2. ASSUME Clear PROVE Goal'
  <2>1. KeyTyped'
    BY <1>2, <1>0 DEF Clear, Ends, Cleared, KeyTyped
  <2>2. CachesTyped'
    BY <1>2, <1>0, <1>i, Lifetimes DEF Clear, CachesTyped, Ticks
  <2> QED
    BY <1>2, <1>r, <1>w, <2>1, <2>2 DEF Clear
<1>3. ASSUME ClearFails PROVE Goal'
  <2>1. KeyTyped'
    BY <1>3, <1>0 DEF ClearFails, Ends, KeyTyped
  <2> QED
    BY <1>3, <1>c, <1>r, <1>w, <2>1 DEF ClearFails
<1>4. ASSUME Restart PROVE Goal'
  <2>1. CachesTyped'
    BY <1>4, <1>0, <1>i DEF Restart, CachesTyped
  <2>2. Idle \in Request
    BY Lifetimes DEF Idle, Request, Phases, Rows
  <2>3. req' \in [Requests -> {req[r] : r \in Requests} \cup {Idle}]
    BY <1>4 DEF Restart
  <2>4. \A r \in Requests : req'[r] \in {req[r], Idle}
    BY <1>4 DEF Restart
  <2>5. RequestsTyped'
    BY <1>p, <2>2, <2>3 DEF RequestsTyped
  <2>6. WritesActive'
    BY <1>0, <2>4 DEF WritesActive, Idle
  <2> QED
    BY <1>4, <1>k, <1>w, <2>1, <2>5, <2>6 DEF Restart
<1>5. ASSUME NEW r \in Requests, Resolve(r) PROVE Goal'
  <2>1. RequestsTyped' /\ WritesActive'
    <3>1. local.rec \in Rows /\ (local # NoEntry => local.rec \in Limits)
      BY <1>0, Lifetimes, EntryParts DEF CachesTyped
    <3>2. CASE local # NoEntry
      BY <1>0, <1>5, <3>1, <3>2, BecomeTyped DEF Resolve, Phases
    <3>3. CASE local = NoEntry
      BY <1>0, <1>5, <1>i, <3>3, BecomeTyped DEF Resolve, Phases
    <3> QED
      BY <3>2, <3>3
  <2> QED
    BY <1>5, <1>k, <1>c, <1>w, <2>1 DEF Resolve
<1>6. ASSUME NEW r \in Requests, Unavailable(r) \/ Reject(r) PROVE Goal'
  BY <1>0, <1>6, <1>k, <1>c, <1>w, LeaveTyped DEF Unavailable, Reject
<1>7. ASSUME NEW r \in Requests, ReadNegative(r) PROVE Goal'
  <2>1. RequestsTyped' /\ WritesActive'
    BY <1>0, <1>7, <1>i, BecomeTyped DEF ReadNegative, Phases
  <2> QED
    BY <1>7, <1>k, <1>c, <1>w, <2>1 DEF ReadNegative
<1>8. ASSUME NEW r \in Requests, ReadPositive(r) PROVE Goal'
  <2>1. positive # NoEntry => positive.rec \in Limits
    BY <1>0, Lifetimes, EntryParts DEF CachesTyped
  <2>2. RequestsTyped' /\ WritesActive'
    BY <1>0, <1>8, <1>i, <2>1, BecomeTyped DEF ReadPositive, Phases, Rows
  <2> QED
    BY <1>8, <1>k, <1>c, <1>w, <2>2 DEF ReadPositive
<1>9. ASSUME NEW r \in Requests, Hit(r) PROVE Goal'
  <2>1. req[r].rec \in Limits
    BY <1>0, <1>9 DEF Hit, WritesActive
  <2>2. local' \in Entry(LocalTtl)
    BY <1>9, <2>1, Lifetimes, FullEntry DEF Hit
  <2>3. CachesTyped'
    BY <1>9, <1>0, <2>2 DEF Hit, CachesTyped
  <2>4. RequestsTyped' /\ WritesActive'
    BY <1>0, <1>9, <1>p, <2>1, BecomeTyped DEF Hit, Phases
  <2> QED
    BY <1>9, <1>k, <1>w, <2>3, <2>4 DEF Hit
<1>10. ASSUME NEW r \in Requests, Lookup(r) PROVE Goal'
  <2>1. RequestsTyped' /\ WritesActive'
    BY <1>0, <1>10, BecomeTyped DEF Lookup, Phases, KeyTyped
  <2> QED
    BY <1>10, <1>k, <1>c, <1>w, <2>1 DEF Lookup
<1>11. ASSUME NEW r \in Requests, Record(r) PROVE Goal'
  <2>1. CASE req[r].rec = Inactive
    <3>1. RequestsTyped' /\ WritesActive'
      BY <1>0, <1>11, <1>i, <2>1, BecomeTyped DEF Record, Phases
    <3> QED
      BY <1>0, <1>11, <1>k, <1>w, <2>1, <3>1 DEF Record, CachesTyped
  <2>2. CASE req[r].rec # Inactive
    <3>1. req[r].rec \in Limits
      BY <1>p, <2>2 DEF Rows
    <3>2. local' \in Entry(LocalTtl)
      BY <1>11, <2>2, <3>1, Lifetimes, FullEntry DEF Record
    <3>3. RequestsTyped' /\ WritesActive'
      BY <1>0, <1>11, <1>p, <2>2, <3>1, BecomeTyped DEF Record, Phases
    <3>4. CachesTyped'
      BY <1>0, <1>11, <3>2 DEF Record, CachesTyped
    <3> QED
      BY <1>11, <1>k, <1>w, <3>3, <3>4 DEF Record
  <2> QED
    BY <2>1, <2>2
<1>12. ASSUME NEW r \in Requests, CacheMissing(r) PROVE Goal'
  <2>1. CachesTyped'
    BY <1>0, <1>12, Lifetimes DEF CacheMissing, CachesTyped, Ticks
  <2>2. RequestsTyped' /\ WritesActive'
    BY <1>0, <1>12, <1>i, BecomeTyped DEF CacheMissing, Phases
  <2> QED
    BY <1>12, <1>k, <1>w, <2>1, <2>2 DEF CacheMissing
<1>13. ASSUME NEW r \in Requests, CacheRecord(r) PROVE Goal'
  <2>1. req[r].rec \in Limits
    BY <1>0, <1>13 DEF CacheRecord, WritesActive
  <2>2. positive' \in Entry(PositiveTtl)
    BY <1>0, <1>13, <2>1, Lifetimes, FullEntry DEF CacheRecord, CachesTyped
  <2>3. CachesTyped'
    BY <1>0, <1>13, <2>2 DEF CacheRecord, CachesTyped
  <2>4. [req[r] EXCEPT !.phase = "consume"] \in Request
    BY <1>p DEF Request, Phases
  <2>5. RequestsTyped'
    BY <1>0, <1>13, <2>4 DEF CacheRecord, RequestsTyped
  <2>6. WritesActive'
    BY <1>0, <1>13, <1>p DEF CacheRecord, RequestsTyped, WritesActive, Request
  <2> QED
    BY <1>13, <1>k, <1>w, <2>3, <2>5, <2>6 DEF CacheRecord
<1>14. ASSUME NEW r \in Requests, Grant(r) \/ Limited(r) PROVE Goal'
  <2>1. RequestsTyped' /\ WritesActive'
    BY <1>0, <1>14, LeaveTyped DEF Grant, Limited
  <2>2. PICK w \in 0 .. MaxDelay : w = req[r].wait
    BY <1>p
  <2>3. /\ w \in Ages /\ InWindow(w) \in [Ages -> Nat]
        /\ \A a \in Ages : InWindow(w)[a] <= granted[a] /\ InWindow(w)[a] \in Nat
    <3>1. w \in Ages
      BY Lifetimes DEF Ages
    <3>2. \A a \in Ages : InWindow(w)[a] \in {0, members[a]}
      BY DEF InWindow
    <3>3. \A a \in Ages : members[a] \in Nat /\ granted[a] \in Nat /\ members[a] <= granted[a]
      BY <1>0 DEF WindowTyped
    <3>4. \A a \in Ages : InWindow(w)[a] <= granted[a] /\ InWindow(w)[a] \in Nat
      BY <3>2, <3>3
    <3> QED
      BY <3>1, <3>4 DEF InWindow
  <2>4. ASSUME Limited(r) PROVE WindowTyped'
    <3>1. members' = InWindow(w) /\ granted' = granted
      BY <2>2, <2>4 DEF Limited
    <3> QED
      BY <1>0, <2>3, <3>1 DEF WindowTyped
  <2>5. ASSUME Grant(r) PROVE WindowTyped'
    <3>1. /\ members' = [InWindow(w) EXCEPT ![w] = @ + 1]
          /\ granted' = [granted EXCEPT ![w] = @ + 1]
      BY <2>2, <2>5 DEF Grant
    <3>2. members' \in [Ages -> Nat] /\ granted' \in [Ages -> Nat]
      BY <1>0, <2>3, <3>1 DEF WindowTyped
    <3>3. ASSUME NEW a \in Ages PROVE members'[a] <= granted'[a]
      <4>1. members'[a] = IF a = w THEN InWindow(w)[a] + 1 ELSE InWindow(w)[a]
        BY <2>3, <3>1
      <4>2. granted'[a] = IF a = w THEN granted[a] + 1 ELSE granted[a]
        BY <1>0, <2>3, <3>1 DEF WindowTyped
      <4>3. granted[a] \in Nat
        BY <1>0 DEF WindowTyped
      <4> QED
        BY <2>3, <4>1, <4>2, <4>3
    <3> QED
      BY <3>2, <3>3 DEF WindowTyped
  <2>6. WindowTyped'
    BY <1>14, <2>4, <2>5
  <2> QED
    BY <1>14, <1>k, <1>c, <2>1, <2>6 DEF Grant, Limited
<1>15. ASSUME Tick PROVE Goal'
  <2>1. since' \in 0 .. StaleBound + 1
    BY <1>0, <1>15, Lifetimes DEF Tick, Later, KeyTyped
  <2>2. KeyTyped'
    BY <1>0, <1>15, <2>1 DEF Tick, KeyTyped
  <2>3. local' \in Entry(LocalTtl) /\ positive' \in Entry(PositiveTtl)
    BY <1>0, <1>15, Lifetimes, Elapsed DEF Tick, CachesTyped
  <2>4. negative' \in 0 .. Ticks(NegativeTtl)
    BY <1>0, <1>15, Lifetimes DEF Tick, CachesTyped, Ticks
  <2>5. CachesTyped'
    BY <2>3, <2>4 DEF CachesTyped
  <2>6. ASSUME NEW r \in Requests PROVE req'[r] \in Request
    <3>1. req[r].wait + 1 \in 0 .. MaxDelay
      BY <1>15, <1>p, Lifetimes DEF Tick
    <3>2. [req[r] EXCEPT !.wait = @ + 1] \in Request
      BY <1>p, <3>1 DEF Request
    <3> QED
      BY <1>15, <1>p, <3>2 DEF Tick
  <2>7. RequestsTyped'
    BY <1>15, <2>6 DEF Tick, RequestsTyped
  <2>8. \A r \in Requests : req'[r].phase = req[r].phase /\ req'[r].rec = req[r].rec
    BY <1>15, <1>p DEF Tick, Request
  <2>9. WritesActive'
    BY <1>0, <2>8 DEF WritesActive
  <2>10. ASSUME NEW f \in [Ages -> Nat]
         PROVE  /\ Older(f) \in [Ages -> Nat]
                /\ \A a \in Ages : Older(f)[a] = IF a = 0 THEN 0 ELSE f[a - 1]
    <3>1. \A a \in Ages : a # 0 => a - 1 \in Ages
      BY Lifetimes DEF Ages
    <3> QED
      BY <3>1 DEF Older
  <2>11. \A a \in Ages : a # 0 => a - 1 \in Ages
    BY Lifetimes DEF Ages
  <2>12. WindowTyped'
    BY <1>0, <1>15, <2>10, <2>11 DEF Tick, WindowTyped
  <2> QED
    BY <2>2, <2>5, <2>7, <2>9, <2>12
<1>16. ASSUME UNCHANGED vars PROVE Goal'
  BY <1>16, <1>k, <1>c, <1>r, <1>w DEF vars
<1> QED
  BY <1>1, <1>2, <1>3, <1>4, <1>5, <1>6, <1>7, <1>8, <1>9, <1>10, <1>11, <1>12, <1>13, <1>14,
     <1>15, <1>16 DEF Next

\* The resolver's and the limiter's state is well typed for any lifetimes: no
\* record of an inactive key is ever cached as valid, and the sorted set holds
\* no member that was not granted.
THEOREM TypeCorrect == Spec => []TypeOK
<1>1. Spec => [](TypeOK /\ WritesActive)
  BY TypeInit, TypeStep, PTL DEF Spec
<1> QED
  BY <1>1, PTL

-----------------------------------------------------------------------------
(* How old an answer can be.                                               *)

\* Whatever does not say what the row says was read before the row was last
\* changed.  So the time since that change is less than the age of what was
\* read, and the age of each copy is bounded by where it was copied from.
AgeOf(r) ==
    /\ req[r].phase = "record" => req[r].rec = row \/ since <= req[r].wait
    /\ req[r].phase = "write" => req[r].rec = row \/ since <= MaxDelay + req[r].wait
    /\ req[r].phase = "missing" => row = Inactive \/ since <= MaxDelay + req[r].wait
    /\ req[r].phase = "hit" =>
          req[r].rec = row \/ since <= 2 * MaxDelay + PositiveTtl + req[r].wait
    /\ req[r].phase = "consume" =>
          req[r].rec = row \/ since <= 3 * MaxDelay + PositiveTtl + LocalTtl + req[r].wait
    /\ req[r].phase = "rejected" => row = Inactive \/ since <= RejectBound
RequestAge == \A r \in Requests : AgeOf(r)
PositiveAge ==
    positive # NoEntry =>
        positive.rec = row \/ since <= 2 * MaxDelay + Ticks(PositiveTtl) - positive.left
NegativeAge ==
    negative > 0 => row = Inactive \/ since <= 2 * MaxDelay + Ticks(NegativeTtl) - negative
LocalAge ==
    local # NoEntry =>
        local.rec = row \/ since <= 3 * MaxDelay + PositiveTtl + Ticks(LocalTtl) - local.left

AgeInv == RequestAge /\ PositiveAge /\ NegativeAge /\ LocalAge

\* Once Redis is cleared and nobody carries an old record, none comes back.
CleanOf(r) ==
    /\ req[r].phase \in {"record", "write"} => req[r].rec = row
    /\ req[r].phase = "missing" => row = Inactive
CleanInv ==
    script = "clean" =>
        /\ positive # NoEntry => positive.rec = row
        /\ negative > 0 => row = Inactive
        /\ \A r \in Requests : CleanOf(r)

\* What a request's next step leaves.
LEMMA Becomes ==
    ASSUME RequestsTyped, NEW r \in Requests, NEW phase, NEW x, Become(r, phase, x)
    PROVE  /\ req'[r].phase = phase /\ req'[r].rec = x /\ req'[r].wait = 0
           /\ \A q \in Requests \ {r} : req'[q] = req[q]
BY DEF Become, RequestsTyped

\* The state as numbers.
LEMMA Numbers ==
    ASSUME TypeOK
    PROVE  /\ since \in Nat /\ negative \in Nat /\ local.left \in Nat /\ positive.left \in Nat
           /\ negative <= Ticks(NegativeTtl)
           /\ local # NoEntry => local.left \in 1 .. Ticks(LocalTtl)
           /\ positive # NoEntry => positive.left \in 1 .. Ticks(PositiveTtl)
           /\ \A r \in Requests : req[r].wait \in 0 .. MaxDelay
<1>1. KeyTyped /\ CachesTyped /\ RequestsTyped
  BY TypedParts
<1>2. since \in Nat /\ negative \in Nat /\ negative <= Ticks(NegativeTtl)
  BY <1>1, Lifetimes DEF KeyTyped, CachesTyped, Ticks
<1>3. /\ local.left \in 0 .. Ticks(LocalTtl)
      /\ local # NoEntry => local.left >= 1
  BY <1>1, Lifetimes, EntryParts DEF CachesTyped
<1>4. /\ positive.left \in 0 .. Ticks(PositiveTtl)
      /\ positive # NoEntry => positive.left >= 1
  BY <1>1, Lifetimes, EntryParts DEF CachesTyped
<1>5. \A r \in Requests : req[r].wait \in 0 .. MaxDelay
  BY <1>1 DEF RequestsTyped, Request
<1> QED
  BY <1>2, <1>3, <1>4, <1>5, Lifetimes DEF Ticks

\* A step of one request that changes neither the row nor the time leaves the
\* ages of the others.
LEMMA OthersAge ==
    ASSUME RequestAge, NEW r \in Requests, row' = row, since' = since,
           \A q \in Requests \ {r} : req'[q] = req[q], AgeOf(r)'
    PROVE  RequestAge'
<1>1. ASSUME NEW q \in Requests, q # r PROVE AgeOf(q)'
  <2>1. req'[q] = req[q] /\ AgeOf(q)
    BY <1>1 DEF RequestAge
  <2> QED
    BY <2>1 DEF AgeOf
<1> QED
  BY <1>1 DEF RequestAge

LEMMA AgeInit == Init => AgeInv /\ CleanInv
<1> SUFFICES ASSUME Init PROVE AgeInv /\ CleanInv
  OBVIOUS
<1>1. \A r \in Requests : req[r].phase = "idle"
  BY DEF Init, Idle
<1> QED
  BY <1>1 DEF Init, AgeInv, RequestAge, AgeOf, PositiveAge, NegativeAge, LocalAge, CleanInv, CleanOf

LEMMA AgeStep == TypeOK /\ WritesActive /\ AgeInv /\ [Next]_vars => AgeInv'
<1> SUFFICES ASSUME TypeOK, WritesActive, AgeInv, [Next]_vars PROVE AgeInv'
  OBVIOUS
<1>a. RequestAge /\ PositiveAge /\ NegativeAge /\ LocalAge /\ RequestsTyped
  BY TypedParts DEF AgeInv
<1>n. /\ since \in Nat /\ negative \in Nat /\ local.left \in Nat /\ positive.left \in Nat
      /\ negative <= Ticks(NegativeTtl)
      /\ local # NoEntry => local.left \in 1 .. Ticks(LocalTtl)
      /\ positive # NoEntry => positive.left \in 1 .. Ticks(PositiveTtl)
      /\ \A r \in Requests : req[r].wait \in 0 .. MaxDelay
  BY Numbers
<1>l. /\ UNCHANGED <<row, since, local>> => LocalAge'
      /\ UNCHANGED <<row, since, positive>> => PositiveAge'
      /\ UNCHANGED <<row, since, negative>> => NegativeAge'
  BY <1>a DEF LocalAge, PositiveAge, NegativeAge
<1>1. ASSUME NEW new \in Rows, Update(new) PROVE AgeInv'
  <2>1. since' = 0 /\ UNCHANGED <<local, positive, negative, req>>
    BY <1>1 DEF Update, cacheVars
  <2>2. RequestAge'
    <3> SUFFICES ASSUME NEW r \in Requests PROVE AgeOf(r)'
      BY DEF RequestAge
    <3> QED
      BY <2>1, <1>n, Lifetimes DEF AgeOf, RejectBound
  <2>3. PositiveAge' /\ NegativeAge' /\ LocalAge'
    BY <2>1, <1>n, Lifetimes DEF PositiveAge, NegativeAge, LocalAge, Ticks
  <2> QED
    BY <2>2, <2>3 DEF AgeInv
<1>2. ASSUME Clear \/ ClearFails PROVE AgeInv'
  <2>1. UNCHANGED <<row, since, local, req>>
    BY <1>2 DEF Clear, ClearFails, cacheVars
  <2>2. positive' \in {positive, NoEntry} /\ negative' \in {negative, 0}
    BY <1>2 DEF Clear, ClearFails, cacheVars
  <2>3. RequestAge'
    BY <1>a, <2>1 DEF RequestAge, AgeOf
  <2>4. PositiveAge' /\ NegativeAge'
    BY <1>a, <2>1, <2>2 DEF PositiveAge, NegativeAge
  <2> QED
    BY <1>l, <2>1, <2>3, <2>4 DEF AgeInv
<1>4. ASSUME Restart PROVE AgeInv'
  <2>1. \A r \in Requests : req'[r] \in {req[r], Idle}
    BY <1>4 DEF Restart
  <2>2. RequestAge'
    <3> SUFFICES ASSUME NEW r \in Requests PROVE AgeOf(r)'
      BY DEF RequestAge
    <3>1. AgeOf(r) /\ UNCHANGED <<row, since>>
      BY <1>4, <1>a DEF RequestAge, Restart, keyVars
    <3>2. req'[r] = req[r] \/ req'[r].phase = "idle"
      BY <2>1 DEF Idle
    <3> QED
      BY <3>1, <3>2 DEF AgeOf
  <2>3. LocalAge'
    BY <1>4 DEF Restart, LocalAge
  <2> QED
    BY <1>4, <1>l, <2>2, <2>3 DEF AgeInv, Restart, keyVars
<1>5. ASSUME NEW r \in Requests, Resolve(r) PROVE AgeInv'
  <2>1. UNCHANGED <<row, since, local, positive, negative>>
    BY <1>5 DEF Resolve, keyVars, cacheVars
  <2>2. CASE local # NoEntry
    <3>1. Become(r, "consume", local.rec)
      BY <1>5, <2>2 DEF Resolve
    <3>2. /\ req'[r].phase = "consume" /\ req'[r].rec = local.rec /\ req'[r].wait = 0
          /\ \A q \in Requests \ {r} : req'[q] = req[q]
      BY <1>a, <3>1, Becomes
    <3>3. local.rec = row \/ since <= 3 * MaxDelay + PositiveTtl + LocalTtl
      BY <1>a, <1>n, <2>2, Lifetimes DEF LocalAge, Ticks
    <3>4. AgeOf(r)'
      BY <2>1, <3>2, <3>3, <1>n, Lifetimes DEF AgeOf
    <3> QED
      BY <1>a, <1>l, <2>1, <3>2, <3>4, OthersAge DEF AgeInv
  <2>3. CASE local = NoEntry
    <3>1. Become(r, "negative", Inactive)
      BY <1>5, <2>3 DEF Resolve
    <3>2. req'[r].phase = "negative" /\ \A q \in Requests \ {r} : req'[q] = req[q]
      BY <1>a, <3>1, Becomes
    <3>3. AgeOf(r)'
      BY <3>2 DEF AgeOf
    <3> QED
      BY <1>a, <1>l, <2>1, <3>2, <3>3, OthersAge DEF AgeInv
  <2> QED
    BY <2>2, <2>3
<1>6. ASSUME NEW r \in Requests,
             Unavailable(r) \/ Reject(r) \/ Grant(r) \/ Limited(r)
      PROVE AgeInv'
  <2>1. UNCHANGED <<row, since, local, positive, negative>> /\ Become(r, "idle", Inactive)
    BY <1>6 DEF Unavailable, Reject, Grant, Limited, Leave, keyVars, cacheVars
  <2>2. req'[r].phase = "idle" /\ \A q \in Requests \ {r} : req'[q] = req[q]
    BY <1>a, <2>1, Becomes
  <2>3. AgeOf(r)'
    BY <2>2 DEF AgeOf
  <2> QED
    BY <1>a, <1>l, <2>1, <2>2, <2>3, OthersAge DEF AgeInv
<1>7. ASSUME NEW r \in Requests, ReadNegative(r) PROVE AgeInv'
  <2>1. UNCHANGED <<row, since, local, positive, negative>>
    BY <1>7 DEF ReadNegative, keyVars, cacheVars
  <2>2. PICK phase \in {"rejected", "positive"} :
            Become(r, phase, Inactive) /\ (phase = "rejected" => negative > 0)
    BY <1>7 DEF ReadNegative
  <2>3. req'[r].phase = phase /\ \A q \in Requests \ {r} : req'[q] = req[q]
    BY <1>a, <2>2, Becomes
  <2>4. phase = "rejected" => row = Inactive \/ since <= RejectBound
    BY <1>a, <1>n, <2>2, Lifetimes DEF NegativeAge, Ticks, RejectBound
  <2>5. AgeOf(r)'
    BY <2>1, <2>3, <2>4 DEF AgeOf
  <2> QED
    BY <1>a, <1>l, <2>1, <2>3, <2>5, OthersAge DEF AgeInv
<1>8. ASSUME NEW r \in Requests, ReadPositive(r) PROVE AgeInv'
  <2>1. UNCHANGED <<row, since, local, positive, negative>>
    BY <1>8 DEF ReadPositive, keyVars, cacheVars
  <2>2. CASE positive # NoEntry
    <3>1. Become(r, "hit", positive.rec)
      BY <1>8, <2>2 DEF ReadPositive
    <3>2. /\ req'[r].phase = "hit" /\ req'[r].rec = positive.rec /\ req'[r].wait = 0
          /\ \A q \in Requests \ {r} : req'[q] = req[q]
      BY <1>a, <3>1, Becomes
    <3>3. positive.rec = row \/ since <= 2 * MaxDelay + PositiveTtl
      BY <1>a, <1>n, <2>2, Lifetimes DEF PositiveAge, Ticks
    <3>4. AgeOf(r)'
      BY <2>1, <3>2, <3>3, <1>n, Lifetimes DEF AgeOf
    <3> QED
      BY <1>a, <1>l, <2>1, <3>2, <3>4, OthersAge DEF AgeInv
  <2>3. CASE positive = NoEntry
    <3>1. Become(r, "lookup", Inactive)
      BY <1>8, <2>3 DEF ReadPositive
    <3>2. req'[r].phase = "lookup" /\ \A q \in Requests \ {r} : req'[q] = req[q]
      BY <1>a, <3>1, Becomes
    <3>3. AgeOf(r)'
      BY <3>2 DEF AgeOf
    <3> QED
      BY <1>a, <1>l, <2>1, <3>2, <3>3, OthersAge DEF AgeInv
  <2> QED
    BY <2>2, <2>3
<1>9. ASSUME NEW r \in Requests, Hit(r) PROVE AgeInv'
  <2>1. UNCHANGED <<row, since, positive, negative>>
    BY <1>9 DEF Hit, keyVars
  <2>2. req[r].rec = row \/ since <= 2 * MaxDelay + PositiveTtl + req[r].wait
    BY <1>a, <1>9 DEF Hit, RequestAge, AgeOf
  <2>3. req[r].rec = row \/ since <= 3 * MaxDelay + PositiveTtl
    BY <2>2, <1>n, Lifetimes
  <2>4. local'.rec = req[r].rec /\ local'.left = Ticks(LocalTtl)
    BY <1>9 DEF Hit
  <2>5. LocalAge'
    BY <2>1, <2>3, <2>4, <1>n, Lifetimes DEF LocalAge, Ticks
  <2>6. /\ req'[r].phase = "consume" /\ req'[r].rec = req[r].rec /\ req'[r].wait = 0
        /\ \A q \in Requests \ {r} : req'[q] = req[q]
    BY <1>a, <1>9, Becomes DEF Hit
  <2>7. AgeOf(r)'
    BY <2>1, <2>3, <2>6, <1>n, Lifetimes DEF AgeOf
  <2> QED
    BY <1>a, <1>l, <2>1, <2>5, <2>6, <2>7, OthersAge DEF AgeInv
<1>10. ASSUME NEW r \in Requests, Lookup(r) PROVE AgeInv'
  <2>1. UNCHANGED <<row, since, local, positive, negative>>
    BY <1>10 DEF Lookup, keyVars, cacheVars
  <2>2. /\ req'[r].phase = "record" /\ req'[r].rec = row
        /\ \A q \in Requests \ {r} : req'[q] = req[q]
    BY <1>a, <1>10, Becomes DEF Lookup
  <2>3. AgeOf(r)'
    BY <2>1, <2>2 DEF AgeOf
  <2> QED
    BY <1>a, <1>l, <2>1, <2>2, <2>3, OthersAge DEF AgeInv
<1>11. ASSUME NEW r \in Requests, Record(r) PROVE AgeInv'
  <2>1. UNCHANGED <<row, since, positive, negative>>
    BY <1>11 DEF Record, keyVars
  <2>2. req[r].rec = row \/ since <= MaxDelay
    <3>1. req[r].rec = row \/ since <= req[r].wait
      BY <1>a, <1>11 DEF Record, RequestAge, AgeOf
    <3> QED
      BY <3>1, <1>n, Lifetimes
  <2>3. CASE req[r].rec = Inactive
    <3>1. local' = local
      BY <1>11, <2>3 DEF Record
    <3>2. /\ req'[r].phase = "missing" /\ req'[r].wait = 0
          /\ \A q \in Requests \ {r} : req'[q] = req[q]
      BY <1>a, <1>11, <2>3, Becomes DEF Record
    <3>3. AgeOf(r)'
      BY <2>1, <2>2, <2>3, <3>2, Lifetimes DEF AgeOf
    <3> QED
      BY <1>a, <1>l, <2>1, <3>1, <3>2, <3>3, OthersAge DEF AgeInv
  <2>4. CASE req[r].rec # Inactive
    <3>1. local'.rec = req[r].rec /\ local'.left = Ticks(LocalTtl)
      BY <1>11, <2>4 DEF Record
    <3>2. LocalAge'
      BY <2>1, <2>2, <3>1, <1>n, Lifetimes DEF LocalAge, Ticks
    <3>3. /\ req'[r].phase = "write" /\ req'[r].rec = req[r].rec /\ req'[r].wait = 0
          /\ \A q \in Requests \ {r} : req'[q] = req[q]
      BY <1>a, <1>11, <2>4, Becomes DEF Record
    <3>4. AgeOf(r)'
      BY <2>1, <2>2, <3>3, Lifetimes DEF AgeOf
    <3> QED
      BY <1>a, <1>l, <2>1, <3>2, <3>3, <3>4, OthersAge DEF AgeInv
  <2> QED
    BY <2>3, <2>4
<1>12. ASSUME NEW r \in Requests, CacheMissing(r) PROVE AgeInv'
  <2>1. UNCHANGED <<row, since, local, positive>>
    BY <1>12 DEF CacheMissing, keyVars
  <2>2. row = Inactive \/ since <= 2 * MaxDelay
    <3>1. row = Inactive \/ since <= MaxDelay + req[r].wait
      BY <1>a, <1>12 DEF CacheMissing, RequestAge, AgeOf
    <3> QED
      BY <3>1, <1>n, Lifetimes
  <2>3. negative' \in {negative, Ticks(NegativeTtl)}
    BY <1>12 DEF CacheMissing
  <2>4. NegativeAge'
    <3>1. CASE negative' = negative
      BY <1>l, <2>1, <3>1
    <3>2. CASE negative' = Ticks(NegativeTtl)
      <4>1. 2 * MaxDelay + Ticks(NegativeTtl) - Ticks(NegativeTtl) = 2 * MaxDelay
        BY Lifetimes DEF Ticks
      <4> QED
        BY <2>1, <2>2, <3>2, <4>1 DEF NegativeAge
    <3> QED
      BY <2>3, <3>1, <3>2
  <2>5. req'[r].phase = "rejected" /\ \A q \in Requests \ {r} : req'[q] = req[q]
    BY <1>a, <1>12, Becomes DEF CacheMissing
  <2>6. AgeOf(r)'
    BY <2>1, <2>2, <2>5, <1>n, Lifetimes DEF AgeOf, RejectBound
  <2> QED
    BY <1>a, <1>l, <2>1, <2>4, <2>5, <2>6, OthersAge DEF AgeInv
<1>13. ASSUME NEW r \in Requests, CacheRecord(r) PROVE AgeInv'
  <2>1. UNCHANGED <<row, since, local, negative>>
    BY <1>13 DEF CacheRecord, keyVars
  <2>2. req[r].rec = row \/ since <= MaxDelay + req[r].wait
    BY <1>a, <1>13 DEF CacheRecord, RequestAge, AgeOf
  <2>3. PICK e : e = [rec |-> req[r].rec, left |-> Ticks(PositiveTtl)]
    OBVIOUS
  <2>4. positive' \in {positive, e} /\ e.rec = req[r].rec /\ e.left = Ticks(PositiveTtl)
    BY <1>13, <2>3 DEF CacheRecord
  <2>5. PositiveAge'
    <3>1. CASE positive' = positive
      BY <1>l, <2>1, <3>1
    <3>2. CASE positive' = e
      BY <1>n, <2>1, <2>2, <2>4, <3>2, Lifetimes DEF PositiveAge, Ticks
    <3> QED
      BY <2>4, <3>1, <3>2
  <2>6. /\ req'[r].phase = "consume" /\ req'[r].rec = req[r].rec /\ req'[r].wait = req[r].wait
        /\ \A q \in Requests \ {r} : req'[q] = req[q]
    BY <1>a, <1>13 DEF CacheRecord, RequestsTyped, Request
  <2>7. AgeOf(r)'
    BY <2>1, <2>2, <2>6, <1>n, Lifetimes DEF AgeOf
  <2> QED
    BY <1>a, <1>l, <2>1, <2>5, <2>6, <2>7, OthersAge DEF AgeInv
<1>15. ASSUME Tick PROVE AgeInv'
  <2>1. row' = row /\ since' \in Nat /\ since' <= since + 1
    BY <1>15, <1>n, Lifetimes DEF Tick, Later
  <2>2. ASSUME NEW r \in Requests PROVE AgeOf(r)'
    <3>1. CASE req[r].phase = "idle"
      <4>1. req'[r] = req[r]
        BY <1>15, <3>1 DEF Tick
      <4> QED
        BY <3>1, <4>1 DEF AgeOf
    <3>2. CASE req[r].phase # "idle"
      <4>1. /\ req'[r].phase = req[r].phase /\ req'[r].rec = req[r].rec
            /\ req'[r].wait = req[r].wait + 1 /\ req[r].phase # "rejected"
        BY <1>15, <1>a, <3>2 DEF Tick, RequestsTyped, Request
      <4>2. AgeOf(r)
        BY <1>a DEF RequestAge
      <4> QED
        BY <1>n, <2>1, <4>1, <4>2, Lifetimes DEF AgeOf
    <3> QED
      BY <3>1, <3>2
  <2>3. /\ local \in Entry(LocalTtl) /\ positive \in Entry(PositiveTtl)
        /\ local' = Elapse(local) /\ positive' = Elapse(positive)
    BY <1>15, TypedParts DEF CachesTyped, Tick
  <2>4. LocalAge'
    <3>1. local' # NoEntry => local # NoEntry /\ local'.rec = local.rec
                              /\ local'.left = local.left - 1
      BY <2>3, Elapsed, Lifetimes
    <3> QED
      BY <1>a, <1>n, <2>1, <3>1, Lifetimes DEF LocalAge, Ticks
  <2>5. PositiveAge'
    <3>1. positive' # NoEntry => positive # NoEntry /\ positive'.rec = positive.rec
                                 /\ positive'.left = positive.left - 1
      BY <2>3, Elapsed, Lifetimes
    <3> QED
      BY <1>a, <1>n, <2>1, <3>1, Lifetimes DEF PositiveAge, Ticks
  <2>6. NegativeAge'
    <3>1. negative' > 0 => negative > 0 /\ negative' = negative - 1
      BY <1>15, <1>n DEF Tick
    <3> QED
      BY <1>a, <1>n, <2>1, <3>1, Lifetimes DEF NegativeAge, Ticks
  <2> QED
    BY <2>2, <2>4, <2>5, <2>6 DEF AgeInv, RequestAge
<1>16. ASSUME UNCHANGED vars PROVE AgeInv'
  <2>1. UNCHANGED <<row, since, local, positive, negative, req>>
    BY <1>16 DEF vars, keyVars, cacheVars
  <2>2. RequestAge'
    BY <1>a, <2>1 DEF RequestAge, AgeOf
  <2> QED
    BY <1>l, <2>1, <2>2 DEF AgeInv
<1> QED
  BY <1>1, <1>2, <1>4, <1>5, <1>6, <1>7, <1>8, <1>9, <1>10, <1>11, <1>12, <1>13, <1>15, <1>16
     DEF Next

\* The rest of a step that leaves the row, the entries of Redis and the other
\* requests as they are.
LEMMA OthersClean ==
    ASSUME CleanInv, NEW r \in Requests, UNCHANGED <<row, script, positive, negative>>,
           \A q \in Requests \ {r} : req'[q] = req[q], script = "clean" => CleanOf(r)'
    PROVE  CleanInv'
<1>1. ASSUME script = "clean", NEW q \in Requests, q # r PROVE CleanOf(q)'
  <2>1. req'[q] = req[q] /\ CleanOf(q)
    BY <1>1 DEF CleanInv
  <2> QED
    BY <2>1 DEF CleanOf
<1> QED
  BY <1>1 DEF CleanInv

LEMMA CleanStep == TypeOK /\ CleanInv /\ [Next]_vars => CleanInv'
<1> SUFFICES ASSUME TypeOK, CleanInv, [Next]_vars PROVE CleanInv'
  OBVIOUS
<1>a. RequestsTyped
  BY TypedParts
<1>1. ASSUME NEW new \in Rows, Update(new) PROVE CleanInv'
  BY <1>1 DEF Update, CleanInv
<1>2. ASSUME Clear PROVE CleanInv'
  <2>1. /\ row' = row /\ req' = req /\ positive' = NoEntry /\ negative' = 0
        /\ script' = "clean" => LateReaders = {}
    BY <1>2 DEF Clear, Ends, Cleared
  <2>2. ASSUME LateReaders = {}, NEW r \in Requests PROVE CleanOf(r)'
    BY <2>1, <2>2 DEF LateReaders, CleanOf
  <2> QED
    BY <2>1, <2>2 DEF CleanInv
<1>3. ASSUME ClearFails PROVE CleanInv'
  BY <1>3 DEF ClearFails, Ends, CleanInv
<1>4. ASSUME Restart PROVE CleanInv'
  <2>1. UNCHANGED <<row, script, positive, negative>>
    BY <1>4 DEF Restart, keyVars
  <2>2. \A r \in Requests : req'[r] \in {req[r], Idle}
    BY <1>4 DEF Restart
  <2>3. ASSUME script = "clean", NEW r \in Requests PROVE CleanOf(r)'
    <3>1. CleanOf(r) /\ row' = row
      BY <2>1, <2>3 DEF CleanInv
    <3>2. req'[r] = req[r] \/ req'[r].phase = "idle"
      BY <2>2 DEF Idle
    <3> QED
      BY <3>1, <3>2 DEF CleanOf
  <2> QED
    BY <2>1, <2>3 DEF CleanInv
<1>5. ASSUME NEW r \in Requests, NEW phase, NEW x, Become(r, phase, x),
             UNCHANGED <<row, script, positive, negative>>,
             phase \notin {"record", "write", "missing"}
      PROVE  CleanInv'
  <2>1. req'[r].phase = phase /\ \A q \in Requests \ {r} : req'[q] = req[q]
    BY <1>a, <1>5, Becomes
  <2>2. CleanOf(r)'
    BY <1>5, <2>1 DEF CleanOf
  <2> QED
    BY <1>5, <2>1, <2>2, OthersClean
<1>6. ASSUME NEW r \in Requests,
             \/ Resolve(r) \/ Unavailable(r) \/ Reject(r) \/ Grant(r) \/ Limited(r)
             \/ ReadNegative(r) \/ ReadPositive(r) \/ Hit(r)
      PROVE CleanInv'
  <2>1. UNCHANGED <<row, script, positive, negative>>
    BY <1>6 DEF Resolve, Unavailable, Reject, Grant, Limited, ReadNegative, ReadPositive, Hit,
                keyVars, cacheVars
  <2>2. \E phase \in {"idle", "consume", "negative", "rejected", "positive", "hit", "lookup"} :
            \E x : Become(r, phase, x)
    BY <1>6 DEF Resolve, Unavailable, Reject, Grant, Limited, ReadNegative, ReadPositive, Hit, Leave
  <2> QED
    BY <1>5, <2>1, <2>2
<1>7. ASSUME NEW r \in Requests, Lookup(r) PROVE CleanInv'
  <2>1. UNCHANGED <<row, script, positive, negative>>
    BY <1>7 DEF Lookup, keyVars, cacheVars
  <2>2. /\ req'[r].phase = "record" /\ req'[r].rec = row
        /\ \A q \in Requests \ {r} : req'[q] = req[q]
    BY <1>a, <1>7, Becomes DEF Lookup
  <2>3. CleanOf(r)'
    BY <2>1, <2>2 DEF CleanOf
  <2> QED
    BY <2>1, <2>2, <2>3, OthersClean
<1>8. ASSUME NEW r \in Requests, Record(r) PROVE CleanInv'
  <2>1. UNCHANGED <<row, script, positive, negative>>
    BY <1>8 DEF Record, keyVars
  <2>2. script = "clean" => req[r].rec = row
    BY <1>8 DEF Record, CleanInv, CleanOf
  <2>3. PICK phase \in {"missing", "write"} :
            /\ Become(r, phase, req[r].rec)
            /\ phase = "missing" => req[r].rec = Inactive
    BY <1>8 DEF Record
  <2>4. /\ req'[r].phase = phase /\ req'[r].rec = req[r].rec
        /\ \A q \in Requests \ {r} : req'[q] = req[q]
    BY <1>a, <2>3, Becomes
  <2>5. script = "clean" => CleanOf(r)'
    BY <2>1, <2>2, <2>3, <2>4 DEF CleanOf
  <2> QED
    BY <2>1, <2>4, <2>5, OthersClean
<1>9. ASSUME NEW r \in Requests, CacheMissing(r) PROVE CleanInv'
  <2>1. UNCHANGED <<row, script, positive>>
    BY <1>9 DEF CacheMissing, keyVars
  <2>2. script = "clean" => row = Inactive
    BY <1>9 DEF CacheMissing, CleanInv, CleanOf
  <2>3. req'[r].phase = "rejected" /\ \A q \in Requests \ {r} : req'[q] = req[q]
    BY <1>a, <1>9, Becomes DEF CacheMissing
  <2>4. ASSUME script = "clean", NEW q \in Requests PROVE CleanOf(q)'
    BY <2>1, <2>3, <2>4 DEF CleanInv, CleanOf
  <2> QED
    BY <2>1, <2>2, <2>4 DEF CleanInv
<1>10. ASSUME NEW r \in Requests, CacheRecord(r) PROVE CleanInv'
  <2>1. UNCHANGED <<row, script, negative>>
    BY <1>10 DEF CacheRecord, keyVars
  <2>2. script = "clean" => req[r].rec = row
    BY <1>10 DEF CacheRecord, CleanInv, CleanOf
  <2>3. positive' = positive \/ positive'.rec = req[r].rec
    BY <1>10 DEF CacheRecord
  <2>4. req'[r].phase = "consume" /\ \A q \in Requests \ {r} : req'[q] = req[q]
    BY <1>a, <1>10 DEF CacheRecord, RequestsTyped, Request
  <2>5. ASSUME script = "clean", NEW q \in Requests PROVE CleanOf(q)'
    BY <2>1, <2>4, <2>5 DEF CleanInv, CleanOf
  <2> QED
    BY <2>1, <2>2, <2>3, <2>5 DEF CleanInv
<1>11. ASSUME Tick PROVE CleanInv'
  <2>1. row' = row /\ script' = script
    BY <1>11 DEF Tick
  <2>2. ASSUME NEW r \in Requests PROVE req'[r].phase = req[r].phase /\ req'[r].rec = req[r].rec
    BY <1>11, <1>a DEF Tick, RequestsTyped, Request
  <2>3. /\ positive \in Entry(PositiveTtl) /\ positive' = Elapse(positive)
        /\ negative \in Nat
    BY <1>11, TypedParts, Numbers DEF CachesTyped, Tick
  <2>4. positive' # NoEntry => positive # NoEntry /\ positive'.rec = positive.rec
    BY <2>3, Elapsed, Lifetimes
  <2>5. negative' > 0 => negative > 0
    BY <1>11, <2>3 DEF Tick
  <2>6. ASSUME script = "clean", NEW r \in Requests PROVE CleanOf(r)'
    BY <2>1, <2>2, <2>6 DEF CleanInv, CleanOf
  <2> QED
    BY <2>1, <2>4, <2>5, <2>6 DEF CleanInv
<1>12. ASSUME UNCHANGED vars PROVE CleanInv'
  BY <1>12 DEF vars, keyVars, cacheVars, CleanInv, CleanOf
<1> QED
  BY <1>1, <1>2, <1>3, <1>4, <1>6, <1>7, <1>8, <1>9, <1>10, <1>11, <1>12 DEF Next

-----------------------------------------------------------------------------

LEMMA AccessInvariant == Spec => [](TypeOK /\ WritesActive /\ AgeInv /\ CleanInv)
BY TypeInit, TypeStep, AgeInit, AgeStep, CleanStep, PTL DEF Spec

\* For any lifetimes and delays, a changed key is answered for as it was for
\* no longer than StaleBound, and a key made active again is not rejected for
\* longer than RejectBound, whether or not updateApiKey could clear Redis.
THEOREM AnswersSoonCurrentAlways == Spec => []AnswersSoonCurrent
<1>1. TypeOK /\ AgeInv => AnswersSoonCurrent
  <2> SUFFICES ASSUME TypeOK, AgeInv, NEW r \in Requests
               PROVE  /\ req[r].phase = "consume" => req[r].rec = row \/ since <= StaleBound
                      /\ req[r].phase = "rejected" => row = Inactive \/ since <= RejectBound
    BY DEF AnswersSoonCurrent
  <2>1. AgeOf(r)
    BY DEF AgeInv, RequestAge
  <2>2. since \in Nat /\ req[r].wait \in 0 .. MaxDelay
    BY Numbers
  <2> QED
    BY <2>1, <2>2, Lifetimes DEF AgeOf, StaleBound
<1> QED
  BY <1>1, AccessInvariant, PTL

\* Once updateApiKey has cleared Redis and no request carries the row as it
\* was, no old entry comes back, for any number of requests.
THEOREM OnlyLateReadersBringBackAlways == Spec => []OnlyLateReadersBringBack
<1>1. CleanInv => OnlyLateReadersBringBack
  BY DEF CleanInv, OnlyLateReadersBringBack
<1> QED
  BY <1>1, AccessInvariant, PTL

-----------------------------------------------------------------------------
(* The rate limiter.                                                       *)

\* There are finitely many members or grants of any ages.
LEMMA AllOfFinite ==
    ASSUME NEW f \in [Ages -> Nat], NEW ages \in SUBSET Ages
    PROVE  IsFiniteSet(AllOf(f, ages)) /\ Total(f, ages) \in Nat
<1> DEFINE parts == {{a} \X (1 .. f[a]) : a \in ages}
           part == [a \in ages |-> {a} \X (1 .. f[a])]
<1>1. IsFiniteSet(ages)
  <2>1. IsFiniteSet(Ages)
    BY Lifetimes, FS_Interval DEF Ages
  <2> QED
    BY <2>1, FS_Subset
<1>2. part \in Surjection(ages, parts)
  BY DEF Surjection
<1>3. \A P \in parts : IsFiniteSet(P)
  <2> SUFFICES ASSUME NEW a \in ages PROVE IsFiniteSet({a} \X (1 .. f[a]))
    OBVIOUS
  <2>1. f[a] \in Int
    OBVIOUS
  <2>2. IsFiniteSet(1 .. f[a])
    BY <2>1, FS_Interval
  <2>3. IsFiniteSet({a})
    BY FS_Singleton
  <2> QED
    BY <2>2, <2>3, FS_Product
<1> HIDE DEF parts, part
<1>4. IsFiniteSet(UNION parts)
  BY <1>1, <1>2, <1>3, FS_Surjection, FS_UNION
<1>5. AllOf(f, ages) = UNION parts
  BY DEF AllOf, parts
<1> QED
  BY <1>4, <1>5, FS_CardinalityType DEF Total

\* One more of an age.
LEMMA OneMore ==
    ASSUME NEW f \in [Ages -> Nat], NEW a \in Ages
    PROVE  Total([f EXCEPT ![a] = @ + 1], Ages) = Total(f, Ages) + 1
<1> DEFINE g == [f EXCEPT ![a] = @ + 1]
           new == <<a, f[a] + 1>>
<1>1. /\ g[a] = f[a] + 1 /\ f[a] \in Nat
      /\ \A b \in Ages : b # a => g[b] = f[b]
  OBVIOUS
<1> HIDE DEF g
<1>2. 1 .. g[a] = (1 .. f[a]) \cup {f[a] + 1} /\ f[a] + 1 \notin 1 .. f[a]
  BY <1>1
<1>3. \A x : x \in AllOf(g, Ages) <=> \E b \in Ages : \E n \in 1 .. g[b] : x = <<b, n>>
  BY DEF AllOf
<1>4. \A x : x \in AllOf(f, Ages) <=> \E b \in Ages : \E n \in 1 .. f[b] : x = <<b, n>>
  BY DEF AllOf
<1>5. AllOf(g, Ages) = AllOf(f, Ages) \cup {new}
  <2>1. ASSUME NEW x \in AllOf(g, Ages) PROVE x \in AllOf(f, Ages) \cup {new}
    <3>1. PICK b \in Ages : \E n \in 1 .. g[b] : x = <<b, n>>
      BY <1>3
    <3>2. CASE b = a
      BY <1>2, <1>4, <3>1, <3>2
    <3>3. CASE b # a
      BY <1>1, <1>4, <3>1, <3>3
    <3> QED
      BY <3>2, <3>3
  <2>2. ASSUME NEW x \in AllOf(f, Ages) PROVE x \in AllOf(g, Ages)
    <3>1. PICK b \in Ages : \E n \in 1 .. f[b] : x = <<b, n>>
      BY <1>4
    <3>2. CASE b = a
      BY <1>2, <1>3, <3>1, <3>2
    <3>3. CASE b # a
      BY <1>1, <1>3, <3>1, <3>3
    <3> QED
      BY <3>2, <3>3
  <2>3. new \in AllOf(g, Ages)
    BY <1>2, <1>3
  <2> QED
    BY <2>1, <2>2, <2>3
<1>6. new \notin AllOf(f, Ages)
  <2>1. ASSUME NEW b \in Ages, NEW n \in 1 .. f[b], new = <<b, n>> PROVE FALSE
    BY <1>2, <2>1
  <2> QED
    BY <1>4, <2>1
<1> HIDE DEF new
<1>7. IsFiniteSet(AllOf(f, Ages))
  BY AllOfFinite
<1> QED
  BY <1>5, <1>6, <1>7, FS_AddElement DEF Total, g

\* Fewer ages, fewer of them.
LEMMA FewerAges ==
    ASSUME NEW f \in [Ages -> Nat], NEW g \in [Ages -> Nat], NEW ages \in SUBSET Ages,
           \A a \in ages : g[a] = f[a]
    PROVE  Total(g, ages) <= Total(f, Ages)
<1>1. AllOf(g, ages) \subseteq AllOf(f, Ages)
  BY DEF AllOf
<1> QED
  BY <1>1, AllOfFinite, FS_Subset DEF Total

\* The sorted set still holds every grant that is not older than the window.
WindowKept == \A a \in Ages : a < Window => members[a] = granted[a]

LEMMA WindowStep == TypeOK /\ WindowKept /\ [Next]_vars => WindowKept'
<1> SUFFICES ASSUME TypeOK, WindowKept, [Next]_vars PROVE WindowKept'
  OBVIOUS
<1>1. ASSUME NEW r \in Requests
      PROVE  /\ req[r].wait \in 0 .. MaxDelay /\ req[r].wait \in Ages
             /\ \A a \in Ages : a < Window => InWindow(req[r].wait)[a] = members[a]
             /\ InWindow(req[r].wait) \in [Ages -> Nat]
  <2>1. req[r].wait \in 0 .. MaxDelay
    BY DEF TypeOK, Request
  <2>2. req[r].wait \in Ages
    BY <2>1, Lifetimes DEF Ages
  <2>3. ASSUME NEW a \in Ages, a < Window PROVE ~(a >= req[r].wait + Window)
    BY <2>1, <2>3, Lifetimes DEF Ages
  <2> QED
    BY <2>1, <2>2, <2>3 DEF InWindow, TypeOK
<1>2. ASSUME NEW r \in Requests, Grant(r) PROVE WindowKept'
  <2> DEFINE kept == InWindow(req[r].wait)
             w == req[r].wait
  <2>1. /\ members' = [kept EXCEPT ![w] = @ + 1]
        /\ granted' = [granted EXCEPT ![w] = @ + 1]
    BY <1>2 DEF Grant
  <2>2. granted \in [Ages -> Nat]
    BY DEF TypeOK
  <2>3. w < Window
    BY <1>1, Lifetimes
  <2>4. kept \in [Ages -> Nat] /\ w \in Ages /\ \A a \in Ages : a < Window => kept[a] = members[a]
    BY <1>1
  <2> HIDE DEF kept, w
  <2> QED
    BY <2>1, <2>2, <2>4 DEF WindowKept
<1>3. ASSUME NEW r \in Requests, Limited(r) PROVE WindowKept'
  BY <1>1, <1>3 DEF Limited, WindowKept
<1>4. ASSUME Tick PROVE WindowKept'
  <2>1. members' = Older(members) /\ granted' = Older(granted)
    BY <1>4 DEF Tick
  <2>2. \A a \in Ages : a # 0 /\ a < Window => a - 1 \in Ages /\ a - 1 < Window
    BY Lifetimes DEF Ages
  <2> QED
    BY <2>1, <2>2 DEF WindowKept, Older
<1>5. CASE UNCHANGED windowVars
  BY <1>5 DEF windowVars, WindowKept
<1> QED
  BY <1>2, <1>3, <1>4, <1>5
     DEF Next, vars, Update, Clear, ClearFails, Restart, Resolve, Unavailable, ReadNegative,
         ReadPositive, Hit, Lookup, Record, CacheMissing, CacheRecord, Reject

\* A grant finds fewer members than the limit; the grants of the window before
\* it that its clock cannot have pruned are among them.
THEOREM GrantsWithinLimitAlways == Spec => GrantsWithinLimit
<1>1. Init => WindowKept
  BY DEF Init, WindowKept
<1>2. TypeOK /\ WritesActive /\ WindowKept /\ [Next]_vars =>
        [\A r \in Requests :
            Grant(r) => Total(granted', {a \in Ages : a >= req[r].wait
                                             /\ a < req[r].wait + Window - MaxDelay})
                           <= req[r].rec]_vars
  <2> SUFFICES ASSUME TypeOK, WritesActive, WindowKept, NEW r \in Requests, Grant(r)
               PROVE  Total(granted', {a \in Ages : a >= req[r].wait
                                             /\ a < req[r].wait + Window - MaxDelay})
                         <= req[r].rec
    OBVIOUS
  <2> DEFINE w == req[r].wait
             kept == InWindow(w)
             ages == {a \in Ages : a >= w /\ a < w + Window - MaxDelay}
  <2>1. /\ members' = [kept EXCEPT ![w] = @ + 1]
        /\ granted' = [granted EXCEPT ![w] = @ + 1]
        /\ Total(kept, Ages) < req[r].rec
    BY DEF Grant, Grants
  <2>2. w \in 0 .. MaxDelay /\ w \in Ages /\ kept \in [Ages -> Nat] /\ granted \in [Ages -> Nat]
    BY Lifetimes DEF TypeOK, Request, Ages, InWindow
  <2>3. ASSUME NEW a \in ages PROVE kept[a] = granted[a]
    <3>1. a \in Ages /\ a \in Int /\ a >= w /\ a < w + Window - MaxDelay
      BY Lifetimes DEF Ages
    <3> HIDE DEF w
    <3>2. a < Window /\ ~(a >= w + Window)
      BY <2>2, <3>1, Lifetimes
    <3> QED
      BY <3>1, <3>2 DEF WindowKept, InWindow
  <2>4. req[r].rec \in Nat
    <3>1. req[r].rec \in Limits
      BY DEF WritesActive, Grant
    <3> QED
      BY <3>1, Lifetimes
  <2> HIDE DEF w, kept
  <2>5. members' \in [Ages -> Nat] /\ granted' \in [Ages -> Nat]
    BY <2>1, <2>2
  <2>6. \A a \in ages : granted'[a] = members'[a]
    BY <2>1, <2>2, <2>3
  <2>7. Total(granted', ages) <= Total(members', Ages)
    BY <2>5, <2>6, FewerAges
  <2>8. Total(members', Ages) = Total(kept, Ages) + 1
    BY <2>1, <2>2, OneMore
  <2>9. Total(granted', ages) \in Nat /\ Total(kept, Ages) \in Nat
    BY <2>2, <2>5, AllOfFinite
  <2>10. Total(granted', ages) <= req[r].rec
    BY <2>1, <2>4, <2>7, <2>8, <2>9
  <2> QED
    BY <2>10 DEF w
<1> QED
  BY <1>1, <1>2, WindowStep, AccessInvariant, PTL DEF Spec, GrantsWithinLimit

=============================================================================
