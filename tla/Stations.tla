------------------------------ MODULE Stations ------------------------------
(***************************************************************************)
(* The stations table and the worker's transactions that write it.         *)
(*                                                                         *)
(* Four jobs run at once.  Each is one READ COMMITTED transaction that     *)
(* first locks the row of its system (upsertSystem), so two of one system  *)
(* never overlap.  A station is looked up by its market id in every        *)
(* system, though, and by its name, and is written later: jobs of two      *)
(* systems can meet in one row.  PostgreSQL makes a write wait for the     *)
(* transaction that has touched the row or a unique key; afterwards a row  *)
(* that is gone is skipped, one that has changed is written as it is now,  *)
(* and a key that is taken fails the transaction.                          *)
(***************************************************************************)
EXTENDS Integers, FiniteSets, Functions

CONSTANTS
    Workers,     \* jobs that run at once
    Systems, Markets,
    Services,    \* lists of supported services
    Undefined,   \* a field the message does not have
    Feed,        \* the messages of the feed, of those possible
    Ids,         \* row ids
    MaxJobs      \* bound: transactions begun

VARIABLES
    rows,        \* committed rows of stations, by id
    stronghold,  \* systems whose committed powerplayState is Stronghold
    tx,          \* the transaction of each worker
    raced,       \* history: a commit got between the reads and writes of a worker
    begun        \* transactions begun

stationsVars == <<rows, stronghold, tx, raced, begun>>

Canonical == "Stronghold Carrier"
CarrierNames == {"Hochburg-Carrier", Canonical}
Names == {"Port"} \cup CarrierNames

\* The characteristics of a carrier: its station type and economy, its pads.
Traits == {"kind", "pads"}
\* Of a row or a message: a carrier by a name in the language of some game and
\* by its characteristics.
IsCarrier(x) == x.name \in CarrierNames /\ x.traits = Traits

\* A Docked message knows the landing pads, a Location message the powerplay
\* state; FSDJump is a Location message that is not at a station.  A state that
\* the worker has no name for is Unmapped.
StationMessages ==
    {m \in [event : {"Docked", "Location"}, system : Systems, market : Markets \cup {Undefined},
            name : Names \cup {Undefined}, traits : SUBSET Traits,
            services : Services \cup {Undefined},
            power : {"Stronghold", "Other", "Unmapped", Undefined}] :
        /\ m.name = Undefined <=> m.market = Undefined
        /\ m.name = Undefined => m.services = Undefined /\ m.traits = {}
        /\ m.event = "Docked" => m.name # Undefined /\ m.power = Undefined
        /\ m.event = "Location" => "pads" \notin m.traits}

ASSUME StationsAssumption ==
    /\ Undefined \notin Services \cup Markets \cup Names \cup {"Stronghold", "Other", "Unmapped"}
    /\ "empty" \notin Services
    /\ Feed \subseteq StationMessages
    /\ MaxJobs \in Nat /\ Ids \subseteq Nat

\* A carrier is stored under the canonical name, but for one that has strayed:
\* history, see Updated.
StationRow ==
    {row \in [market : Markets, system : Systems, name : Names, traits : SUBSET Traits,
              services : Services \cup {"empty"}, servicesV2 : Services \cup {"empty"},
              strayed : BOOLEAN] :
        /\ row.strayed => IsCarrier(row)
        /\ IsCarrier(row) /\ row.name # Canonical => row.strayed}
Gone == [row |-> "gone"]
Found == [id : Ids, row : StationRow]
Nothing == [row |-> "nothing"]

Idle == [phase |-> "idle"]
Phases == {"powerplay", "first", "second", "delete", "put", "commit"}
Active(w) == tx[w] # Idle
Others(w) == {v \in Workers \ {w} : Active(v)}

-----------------------------------------------------------------------------
(* Reading.                                                                *)

\* The rows a transaction sees: the committed ones and its own writes.
Visible(w) ==
    [i \in {j \in DOMAIN rows \cup DOMAIN tx[w].own :
                j \in DOMAIN tx[w].own => tx[w].own[j] # Gone} |->
        IF i \in DOMAIN tx[w].own THEN tx[w].own[i] ELSE rows[i]]

\* SELECT ... LIMIT 1: keys are unique, there is one at most.
Find(w, ids) == IF ids = {} THEN Nothing
                ELSE LET i == CHOOSE i \in ids : TRUE IN [id |-> i, row |-> Visible(w)[i]]

FindByMarket(w) ==
    LET vs == Visible(w) IN Find(w, {i \in DOMAIN vs : vs[i].market = tx[w].m.market})

\* normalizeStrongholdCarrierName.  A Location message has no landing pads and is
\* never taken for a carrier.
NameOf(m) == IF IsCarrier(m) THEN Canonical ELSE m.name

FindByName(w) ==
    LET vs == Visible(w) IN
    Find(w, {i \in DOMAIN vs : vs[i].system = tx[w].m.system /\ vs[i].name = NameOf(tx[w].m)})

\* getStrongholdCarrierPredicate
CarriersIn(rs, s) ==
    {i \in DOMAIN rs : rs[i].system = s /\ rs[i].name = Canonical /\ rs[i].traits = Traits}

-----------------------------------------------------------------------------
(* Writing.                                                                *)

Touched(v) == IF Active(v) THEN DOMAIN tx[v].own ELSE {}

\* Another transaction has written one of the rows: the statement waits.
Waits(w, ids) == \E v \in Others(w) : Touched(v) \cap ids # {}

Sharing(a, b) == a.market = b.market \/ (a.system = b.system /\ a.name = b.name)

\* The ids of other rows with a unique key of row: uncommitted ones of other
\* transactions, and those visible.
Rivals(w, id, row) ==
    LET vs == Visible(w) IN {i \in DOMAIN vs \ {id} : Sharing(vs[i], row)}
RivalsElsewhere(w, id, row) ==
    {v \in Others(w) : \E i \in DOMAIN tx[v].own \ {id} :
                           tx[v].own[i] # Gone /\ Sharing(tx[v].own[i], row)}

Write(w, rs) == [tx[w] EXCEPT !.own = [i \in DOMAIN rs \cup DOMAIN @ |->
                                          IF i \in DOMAIN rs THEN rs[i] ELSE @[i]]]
Become(w, t) == tx' = [tx EXCEPT ![w] = t]

\* Mutant of ToDelete: the other row stays.
ToDeleteNone(t) == {}

\* upsertRegularStation: the row with the market id goes if another one has
\* the name.  upsertStrongholdCarrier: it goes unless it is the carrier.
ToDelete(t) ==
    LET byMarket == IF IsCarrier(t.m) THEN t.second ELSE t.first
        other == IF IsCarrier(t.m) THEN t.first ELSE t.second IN
    IF \/ byMarket = Nothing
       \/ other # Nothing /\ other.id = byMarket.id
       \/ other = Nothing /\ ~IsCarrier(t.m)
    THEN {} ELSE {byMarket.id}

\* The row to update, as it was read; Nothing for an insert.  A regular station
\* found twice is taken from the first lookup.
Survivor(t) ==
    IF \/ IsCarrier(t.m) \/ t.second = Nothing
       \/ t.first # Nothing /\ t.first.id = t.second.id
    THEN t.first ELSE t.second

\* Mutant of Backfills: never.
BackfillsNever(read) == FALSE

\* buildStationWritePayload: without services in the message servicesV2 is
\* derived from the services that were read, if it was empty.
Backfills(read) == read.servicesV2 = "empty" /\ read.services # "empty"

NewRow(m) ==
    [market |-> m.market, system |-> m.system, name |-> NameOf(m), traits |-> m.traits,
     services |-> IF m.services = Undefined THEN "empty" ELSE m.services,
     servicesV2 |-> IF m.services = Undefined THEN "empty" ELSE m.services,
     strayed |-> FALSE]

\* The characteristics after an UPDATE: a Location message leaves the pads alone.
TraitsOf(m, now) ==
    IF m.event = "Docked" THEN m.traits ELSE m.traits \cup (now.traits \ {"kind"})

\* A Location message names a carrier, which it never takes for one, in another
\* language or in a system that is no stronghold.
Strays(t, now) ==
    /\ t.m.event = "Location"
    /\ t.m.name \in CarrierNames /\ TraitsOf(t.m, now) = Traits
    /\ t.m.name # Canonical \/ ~t.stronghold

\* UPDATE by t of a row that is now: undefined fields stay.
Updated(t, now, read) ==
    [market |-> t.m.market, system |-> t.m.system, name |-> NameOf(t.m),
     traits |-> TraitsOf(t.m, now),
     services |-> IF t.m.services = Undefined THEN now.services ELSE t.m.services,
     servicesV2 |-> IF t.m.services # Undefined THEN t.m.services
                    ELSE IF Backfills(read) THEN read.services ELSE now.servicesV2,
     strayed |-> Strays(t, now)]

\* Ids are random and never come again.  Here one does once nothing knows it,
\* and the least will do: which it is makes no difference.
FreeIds == Ids \ (DOMAIN rows \cup
                  UNION {Touched(v) \cup {f.id : f \in {tx[v].first, tx[v].second} \ {Nothing}} :
                            v \in {u \in Workers : Active(u)}})
NewIds == {i \in FreeIds : \A j \in FreeIds : i <= j}

\* What the last statement would write: nothing if the survivor is gone.
Puts(w) ==
    LET t == tx[w] IN
    IF Survivor(t) = Nothing THEN {[id |-> i, row |-> NewRow(t.m)] : i \in NewIds}
    ELSE IF Survivor(t).id \notin DOMAIN Visible(w) THEN {}
    ELSE {[id |-> Survivor(t).id,
           row |-> Updated(t, Visible(w)[Survivor(t).id], Survivor(t).row)]}

-----------------------------------------------------------------------------

\* At most one station, which earlier jobs stored; servicesV2 is empty if that
\* was before the column was, and another list if two of them raced.
StationsInit ==
    /\ stronghold \in SUBSET Systems
    /\ rows \in {[i \in {} |-> Nothing]} \cup
                {[i \in {j \in Ids : \A k \in Ids : j <= k} |-> row] :
                    row \in {r \in StationRow :
                                /\ r.services = "empty" => r.servicesV2 = "empty"
                                /\ IsCarrier(r) /\ ~r.strayed => r.system \in stronghold}}
    /\ tx = [w \in Workers |-> Idle]
    /\ raced = [w \in Workers |-> FALSE]
    /\ begun = 0

\* After the powerplay data comes the station, unless there is none or it is a
\* carrier in a system that is no stronghold.
AfterPowerplay(m, isStronghold) ==
    IF m.name = Undefined \/ (IsCarrier(m) /\ ~isStronghold) THEN "commit" ELSE "first"

\* A powerplay state that is not Stronghold takes the carriers of the system.
TakesCarriers(m) == m.power \in {"Other", "Unmapped"}

\* A job begins: upsertSystem waits for the transaction that has the system, and
\* leaves its state alone without one in the message that has a mapping.
Begin(w, m) ==
    LET isStronghold == IF m.power \in {"Stronghold", "Other"} THEN m.power = "Stronghold"
                        ELSE m.system \in stronghold IN
    /\ ~Active(w)
    /\ begun < MaxJobs
    /\ \A v \in Others(w) : tx[v].m.system # m.system
    /\ Become(w, [phase |-> IF TakesCarriers(m) THEN "powerplay"
                            ELSE AfterPowerplay(m, isStronghold),
                  m |-> m, stronghold |-> isStronghold,
                  own |-> [i \in {} |-> Gone], first |-> Nothing, second |-> Nothing])
    /\ begun' = begun + 1
    /\ UNCHANGED <<rows, stronghold, raced>>

\* Mutant of Powerplay: carriers stay.
PowerplayKeepsCarriers(w) ==
    /\ Active(w) /\ tx[w].phase = "powerplay"
    /\ Become(w, [tx[w] EXCEPT !.phase = AfterPowerplay(tx[w].m, tx[w].stronghold)])
    /\ UNCHANGED <<rows, stronghold, raced, begun>>

\* deleteStrongholdCarriersInSystem
Powerplay(w) ==
    LET carriers == CarriersIn(Visible(w), tx[w].m.system) IN
    /\ Active(w) /\ tx[w].phase = "powerplay"
    /\ ~Waits(w, carriers)
    /\ Become(w, [Write(w, [i \in carriers |-> Gone])
                     EXCEPT !.phase = AfterPowerplay(tx[w].m, tx[w].stronghold)])
    /\ UNCHANGED <<rows, stronghold, raced, begun>>

ReadFirst(w) ==
    /\ Active(w) /\ tx[w].phase = "first"
    /\ Become(w, [tx[w] EXCEPT !.phase = "second",
                     !.first = IF IsCarrier(tx[w].m)
                               THEN Find(w, CarriersIn(Visible(w), tx[w].m.system))
                               ELSE FindByMarket(w)])
    /\ UNCHANGED <<rows, stronghold, raced, begun>>

ReadSecond(w) ==
    LET t == [tx[w] EXCEPT !.second = IF IsCarrier(tx[w].m) THEN FindByMarket(w)
                                      ELSE FindByName(w)] IN
    /\ Active(w) /\ tx[w].phase = "second"
    /\ Become(w, [t EXCEPT !.phase = IF ToDelete(t) = {} THEN "put" ELSE "delete"])
    /\ UNCHANGED <<rows, stronghold, raced, begun>>

\* deleteStationById
Delete(w) ==
    /\ Active(w) /\ tx[w].phase = "delete"
    /\ ~Waits(w, ToDelete(tx[w]))
    /\ Become(w, [Write(w, [i \in ToDelete(tx[w]) \cap DOMAIN Visible(w) |-> Gone])
                     EXCEPT !.phase = "put"])
    /\ UNCHANGED <<rows, stronghold, raced, begun>>

\* Mutant of Put: stations has no unique keys.
PutUnchecked(w) ==
    /\ Active(w) /\ tx[w].phase = "put"
    /\ \E p \in Puts(w) :
          Become(w, [Write(w, [i \in {p.id} |-> p.row]) EXCEPT !.phase = "commit"])
    /\ UNCHANGED <<rows, stronghold, raced, begun>>

\* updateStationById or insertStation.
Put(w) ==
    /\ Active(w) /\ tx[w].phase = "put"
    /\ \/ /\ Puts(w) = {}
          /\ Survivor(tx[w]) # Nothing
          /\ Become(w, [tx[w] EXCEPT !.phase = "commit"])
       \/ \E p \in Puts(w) :
             /\ ~Waits(w, {p.id} \cup Rivals(w, p.id, p.row))
             /\ RivalsElsewhere(w, p.id, p.row) = {}
             /\ Rivals(w, p.id, p.row) = {}
             /\ Become(w, [Write(w, [i \in {p.id} |-> p.row]) EXCEPT !.phase = "commit"])
    /\ UNCHANGED <<rows, stronghold, raced, begun>>

\* The commit of w comes between the reads and the writes of v: it changed a
\* row v has found, or it brought one with the market id of v.
Disturbs(w, v) ==
    /\ tx[v].phase \in {"second", "delete", "put"}
    /\ \/ Touched(w) \cap {f.id : f \in {tx[v].first, tx[v].second} \ {Nothing}} # {}
       \/ \E i \in Touched(w) : tx[w].own[i] # Gone /\ tx[w].own[i].market = tx[v].m.market

Commit(w) ==
    /\ Active(w) /\ tx[w].phase = "commit"
    /\ rows' = Visible(w)
    /\ stronghold' = IF tx[w].stronghold THEN stronghold \cup {tx[w].m.system}
                     ELSE stronghold \ {tx[w].m.system}
    /\ raced' = [v \in Workers |-> v \in Others(w) /\ (raced[v] \/ Disturbs(w, v))]
    /\ Become(w, Idle)
    /\ UNCHANGED begun

\* A unique key is taken, a deadlock, a timeout of a lock or a statement, a
\* lost connection: the transaction leaves nothing, and the job may come again.
Abort(w) ==
    /\ Active(w)
    /\ Become(w, Idle)
    /\ raced' = [raced EXCEPT ![w] = FALSE]
    /\ UNCHANGED <<rows, stronghold, begun>>

StationsNext == \E w \in Workers :
    \/ \E m \in Feed : Begin(w, m)
    \/ Powerplay(w) \/ ReadFirst(w) \/ ReadSecond(w) \/ Delete(w) \/ Put(w)
    \/ Commit(w) \/ Abort(w)

StationsSpec == StationsInit /\ [][StationsNext]_stationsVars

-----------------------------------------------------------------------------

\* The shapes of the tables and of the transactions, and the unique keys.
StationsTypeOK ==
    /\ \E S \in SUBSET Ids : rows \in [S -> StationRow]
    /\ \A i, j \in DOMAIN rows : i # j => ~Sharing(rows[i], rows[j])
    /\ stronghold \subseteq Systems
    /\ \A w \in Workers : Active(w) =>
          /\ tx[w].m \in StationMessages /\ tx[w].phase \in Phases
          /\ \A i \in DOMAIN tx[w].own :
                i \in Ids /\ (tx[w].own[i] # Gone => tx[w].own[i] \in StationRow)
          /\ \A f \in {tx[w].first, tx[w].second} \ {Nothing} : f \in Found
    /\ raced \in [Workers -> BOOLEAN]
    /\ begun \in 0 .. MaxJobs

\* servicesV2 is another list than services: a row that a raced job left.
OutOfStep(row) == row.servicesV2 \notin {row.services, "empty"}

IsStored(t, row) ==
    /\ row.market = t.m.market /\ row.system = t.m.system /\ row.name = NameOf(t.m)
    /\ row.traits \ {"pads"} = t.m.traits \ {"pads"}
    /\ t.m.event = "Docked" => row.traits = t.m.traits
    /\ t.m.services # Undefined => row.services = t.m.services
    /\ \/ row.servicesV2 = row.services
       \/ t.m.services = Undefined /\ Survivor(t) # Nothing /\ OutOfStep(Survivor(t).row)

\* A job that is about to commit has its station in a row; a carrier is dropped
\* in a system that is no stronghold.
HasStored(w) ==
    /\ Active(w) /\ tx[w].phase = "commit" /\ tx[w].m.name # Undefined
    /\ IsCarrier(tx[w].m) => tx[w].stronghold
    => \E i \in DOMAIN Visible(w) : IsStored(tx[w], Visible(w)[i])

\* The row a job deletes first is the only other one with a key of its station.
\* Except for a carrier whose name an incomplete row has, which a Location
\* message left: findStrongholdCarriersInSystem does not find that row, and
\* every Docked message of the carrier fails.
CanStore(w) ==
    Active(w) /\ tx[w].phase = "put" =>
        \A p \in Puts(w) :
            \A i \in Rivals(w, p.id, p.row) :
                IsCarrier(tx[w].m) /\ Visible(w)[i].name = Canonical /\ ~IsCarrier(Visible(w)[i])

\* The row is the station of the message or has its name, or it is a carrier that
\* leaves with the stronghold of the message's system.
Concerns(m, row) ==
    \/ row.market = m.market
    \/ /\ row.system = m.system
       /\ row.name = NameOf(m) \/ (TakesCarriers(m) /\ IsCarrier(row) /\ row.name = Canonical)

\* A job deletes and overwrites by id; what is lost has no keys but its own.
SparesOthers(w) ==
    Active(w) => \A i \in Touched(w) \cap DOMAIN rows : Concerns(tx[w].m, rows[i])

\* Whatever the jobs of other systems do to stations: a job whose reads were
\* still true when it wrote has stored its station, no unique key but that of an
\* incomplete carrier could make it fail, and it has written over no other
\* station.  servicesV2 is in step with services afterwards, even in a row from
\* before that column; only a row that a raced job left out of step stays so
\* until a message has services.
UnracedJobsStore ==
    \A w \in Workers : ~raced[w] => CanStore(w) /\ HasStored(w) /\ SparesOthers(w)

\* Whatever jobs move or replace its row, no carrier outlives its stronghold that
\* the worker knows as one: a carrier in a system that is no stronghold has
\* strayed.  The last to write it was a Location message, in another language, so
\* that deleteStrongholdCarriersInSystem does not find it, or from a system that
\* was no stronghold.
CarriersInStrongholds ==
    \A i \in DOMAIN rows :
        IsCarrier(rows[i]) /\ ~rows[i].strayed => rows[i].system \in stronghold
=============================================================================
