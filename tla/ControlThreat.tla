---------------------------- MODULE ControlThreat ----------------------------
(***************************************************************************)
(* The factionControlThreatChanged events of one star system.              *)
(*                                                                         *)
(* processFactionsData (apps/eddn-worker, factionHelpers.ts) applies the   *)
(* factions of a journal message to a system in one transaction of several *)
(* statements.  Triggers on factionStates and systems run                  *)
(* refresh_system_faction_control_threat after each statement that changed *)
(* rows: it compares the controlling faction with its strongest challenger,*)
(* rewrites the row of systemFactionControlThreats and puts 'entered' or   *)
(* 'cleared' into eventOutbox when isThreatened flips.                     *)
(*                                                                         *)
(* Transactions on one system do not interleave: each begins with          *)
(* upsertSystem, whose INSERT ... ON CONFLICT DO UPDATE locks the row of   *)
(* the system until the transaction ends.  Systems do not meet.            *)
(***************************************************************************)
EXTENDS Integers, Sequences, FiniteSets

CONSTANTS
    Factions,     \* faction ids
    Levels,       \* influences, in some unit
    Threshold,    \* v_threshold, in the same unit
    NoFaction,    \* a NULL faction id
    NoGap         \* a NULL gap

ASSUME ThreatAssumption ==
    /\ Levels \subseteq Nat
    /\ Threshold \in Nat
    /\ NoFaction \notin Factions
    /\ NoGap \notin Int

VARIABLES
    influence,    \* factionStates of the system: influence per faction with a row
    controller,   \* systems.controllingFactionId
    threat,       \* the row of systemFactionControlThreats
    step,         \* the next statement of the open transaction, "none" without one
    message,      \* the message the open transaction applies
    emitted,      \* eventOutbox rows of the open transaction, in insertion order
    saved,        \* the committed tables
    announced,    \* history: status of the last committed event of the system
    heard         \* history: status of the last committed event naming a faction

tableVars == <<influence, controller, threat>>
historyVars == <<announced, heard>>
vars == <<tableVars, step, message, emitted, saved, historyVars>>

\* Rows of factionStates, by faction.
States == UNION {[S -> Levels] : S \in SUBSET Factions}
MaybeFaction == Factions \cup {NoFaction}
MaybeGap == Int \cup {NoGap}

ThreatRow == [exists : BOOLEAN, faction : MaybeFaction, challenger : MaybeFaction,
              gap : MaybeGap, threatened : BOOLEAN]
NoRow == [exists |-> FALSE, faction |-> NoFaction, challenger |-> NoFaction,
          gap |-> NoGap, threatened |-> FALSE]

Event == [status : {"entered", "cleared"}, faction : Factions,
          challenger : Factions, gap : Int]

\* A message lists at least one faction; SystemFaction is one of them, or it
\* is missing or matches no name in factionIdMap.
Messages ==
    {m \in [states : States, controller : MaybeFaction] :
        /\ DOMAIN m.states # {}
        /\ m.controller \in DOMAIN m.states \cup {NoFaction}}

NoMessage == [states |-> [f \in {} |-> 0], controller |-> NoFaction]

Tables == [influence |-> influence, controller |-> controller, threat |-> threat]

TypeOK ==
    /\ influence \in States
    /\ controller \in MaybeFaction
    /\ threat \in ThreatRow
    /\ step \in {"none", "cleanup", "sync", "upsert", "commit"}
    /\ message \in Messages \cup {NoMessage}
    /\ emitted \in Seq(Event)
    /\ saved \in [influence : States, controller : MaybeFaction, threat : ThreatRow]
    /\ announced \in {"entered", "cleared"}
    /\ heard \in [Factions -> {"entered", "cleared"}]

-----------------------------------------------------------------------------
(* refresh_system_faction_control_threat, on the rows inf and the          *)
(* controlling faction c.                                                  *)

\* The candidates of ORDER BY influence DESC; the rest of the order (times
\* and ids) breaks ties.  None when the controller is unknown or has no row.
Challengers(inf, c) ==
    IF c \notin DOMAIN inf THEN {}
    ELSE {f \in DOMAIN inf \ {c} : \A g \in DOMAIN inf \ {c} : inf[g] <= inf[f]}

\* The challenger the query returns, NoFaction for no row.
Challenger(inf, c) ==
    IF Challengers(inf, c) = {} THEN {NoFaction} ELSE Challengers(inf, c)

GapTo(inf, c, x) == IF x = NoFaction THEN NoGap ELSE inf[c] - inf[x]
Threatened(gap) == gap # NoGap /\ gap <= Threshold

\* COALESCE of two values of which null stands for NULL.
Coalesce(a, b, null) == IF a # null THEN a ELSE b

\* Mutant of EventsOf: the values of the moment, without COALESCE.
EventsOfTheMoment(before, c, x, gap) ==
    IF before.threatened = Threatened(gap) THEN <<>>
    ELSE <<[status |-> IF Threatened(gap) THEN "entered" ELSE "cleared",
            faction |-> c, challenger |-> x, gap |-> gap]>>

\* Mutant of EventsOf: a row that is inserted is not announced.
EventsOfUpdatesOnly(before, c, x, gap) ==
    IF ~before.exists \/ before.threatened = Threatened(gap) THEN <<>>
    ELSE <<[status |-> IF Threatened(gap) THEN "entered" ELSE "cleared",
            faction |-> IF Threatened(gap) THEN c ELSE before.faction,
            challenger |-> IF Threatened(gap) THEN x ELSE before.challenger,
            gap |-> IF Threatened(gap) THEN gap ELSE before.gap]>>

\* The events the function inserts, before is the previous row.
EventsOf(before, c, x, gap) ==
    IF before.threatened = Threatened(gap) THEN <<>>
    ELSE IF Threatened(gap)
    THEN <<[status |-> "entered", faction |-> c, challenger |-> x, gap |-> gap]>>
    ELSE <<[status |-> "cleared",
            faction |-> Coalesce(before.faction, c, NoFaction),
            challenger |-> Coalesce(before.challenger, x, NoFaction),
            gap |-> Coalesce(before.gap, Coalesce(gap, Threshold, NoGap), NoGap)]>>

\* The row the function leaves; a missing row counts as not threatened.
RowOf(before, c, x, gap) ==
    [exists |-> TRUE, faction |-> c, challenger |-> x, gap |-> gap,
     threatened |-> Threatened(gap)]

\* The trigger fires after a statement that left the rows inf and the
\* controlling faction c.  An upsert that inserts and updates fires it twice,
\* and the second call finds the row it has just written.
Refresh(inf, c) ==
    \E x \in Challenger(inf, c) :
        LET gap == GapTo(inf, c, x) IN
        /\ threat' = RowOf(threat, c, x, gap)
        /\ emitted' = emitted \o EventsOf(threat, c, x, gap)

NoRefresh == UNCHANGED <<threat, emitted>>

-----------------------------------------------------------------------------

\* The rows the migration that creates the table fills in: a system whose
\* controller has no row in factionStates gets none.
Backfilled(inf, c) ==
    IF c \notin DOMAIN inf THEN {NoRow}
    ELSE {RowOf(NoRow, c, x, GapTo(inf, c, x)) : x \in Challenger(inf, c)}

\* Any system, visited or not, when the migration has run.  The history starts
\* as if the threat at hand had been announced.
Init ==
    /\ influence \in States
    /\ controller \in MaybeFaction
    /\ threat \in Backfilled(influence, controller)
    /\ step = "none"
    /\ message = NoMessage
    /\ emitted = <<>>
    /\ saved = Tables
    /\ announced = IF threat.threatened THEN "entered" ELSE "cleared"
    /\ heard = [f \in Factions |->
                  IF threat.threatened /\ f = controller THEN "entered" ELSE "cleared"]

-----------------------------------------------------------------------------
(* processFactionsData, one action per statement that reaches the triggers.*)

Begin(m) ==
    /\ step = "none"
    /\ step' = "cleanup"
    /\ message' = m
    /\ UNCHANGED <<tableVars, emitted, saved, historyVars>>

\* Mutant of CleanupFactionStates: no trigger on DELETE.
CleanupWithoutRefresh ==
    LET kept == DOMAIN influence \cap DOMAIN message.states IN
    /\ step = "cleanup"
    /\ step' = "sync"
    /\ influence' = [f \in kept |-> influence[f]]
    /\ NoRefresh
    /\ UNCHANGED <<controller, message, saved, historyVars>>

\* DELETE of the factions that the message does not list.
CleanupFactionStates ==
    LET kept == DOMAIN influence \cap DOMAIN message.states IN
    /\ step = "cleanup"
    /\ step' = "sync"
    /\ influence' = [f \in kept |-> influence[f]]
    /\ IF kept = DOMAIN influence
       THEN NoRefresh
       ELSE Refresh(influence', controller)
    /\ UNCHANGED <<controller, message, saved, historyVars>>

\* UPDATE of controllingFactionId, unless the message names none.
SyncSystemControllingFaction ==
    /\ step = "sync"
    /\ step' = "upsert"
    /\ controller' = Coalesce(message.controller, controller, NoFaction)
    /\ IF controller' = controller
       THEN NoRefresh
       ELSE Refresh(influence, controller')
    /\ UNCHANGED <<influence, message, saved, historyVars>>

\* The rows after the upsert of the rows new.
Upserted(new) ==
    [f \in DOMAIN influence \cup DOMAIN new |->
        IF f \in DOMAIN new THEN new[f] ELSE influence[f]]

\* Mutant of UpsertFactionStates: one upsert per faction, the controller first.
UpsertOneByOne ==
    /\ step = "upsert"
    /\ step' = "commit"
    /\ influence' = Upserted(message.states)
    /\ \E x \in Challenger(influence', controller), f \in DOMAIN message.states :
        LET first == Upserted([g \in {f} |-> message.states[f]])
            gap == GapTo(influence', controller, x)
        IN
        \E y \in Challenger(first, controller) :
            LET firstGap == GapTo(first, controller, y)
                row == RowOf(threat, controller, y, firstGap)
            IN
            /\ threat' = RowOf(row, controller, x, gap)
            /\ emitted' = emitted \o EventsOf(threat, controller, y, firstGap)
                                  \o EventsOf(row, controller, x, gap)
    /\ UNCHANGED <<controller, message, saved, historyVars>>

\* One INSERT ... ON CONFLICT DO UPDATE of all listed factions.  It changes no
\* row when every row is as it was; rows with the same influence may differ in
\* other columns.
UpsertFactionStates ==
    /\ step = "upsert"
    /\ step' = "commit"
    /\ influence' = Upserted(message.states)
    /\ \/ Refresh(influence', controller)
       \/ influence' = influence /\ NoRefresh
    /\ UNCHANGED <<controller, message, saved, historyVars>>

EventsNaming(f) == {i \in DOMAIN emitted : emitted[i].faction = f}
LastNamingEntered(f) ==
    \E i \in EventsNaming(f) :
        emitted[i].status = "entered" /\ \A j \in EventsNaming(f) : j <= i

Commit ==
    /\ step = "commit"
    /\ step' = "none"
    /\ message' = NoMessage
    /\ emitted' = <<>>
    /\ saved' = Tables
    /\ announced' =
         IF emitted = <<>> THEN announced ELSE emitted[Len(emitted)].status
    /\ heard' = [f \in Factions |->
         IF EventsNaming(f) = {} THEN heard[f]
         ELSE IF LastNamingEntered(f) THEN "entered" ELSE "cleared"]
    /\ UNCHANGED tableVars

\* Mutant of Abort: the threat row is written outside the transaction.
AbortKeepsThreat ==
    /\ step # "none"
    /\ step' = "none"
    /\ message' = NoMessage
    /\ emitted' = <<>>
    /\ influence' = saved.influence
    /\ controller' = saved.controller
    /\ UNCHANGED <<threat, saved, historyVars>>

\* A statement fails or times out: PostgreSQL rolls everything back, and the
\* queue may deliver the message again, after others.
Abort ==
    /\ step # "none"
    /\ step' = "none"
    /\ message' = NoMessage
    /\ emitted' = <<>>
    /\ influence' = saved.influence
    /\ controller' = saved.controller
    /\ threat' = saved.threat
    /\ UNCHANGED <<saved, historyVars>>

Next ==
    \/ \E m \in Messages : Begin(m)
    \/ CleanupFactionStates
    \/ SyncSystemControllingFaction
    \/ UpsertFactionStates
    \/ Commit
    \/ Abort

Spec == Init /\ [][Next]_vars

-----------------------------------------------------------------------------
(* Properties.                                                             *)

\* The truth the events are about, from the rows inf and the controller c alone.
ThreatIn(inf, c) == \E x \in Challengers(inf, c) : inf[c] - inf[x] <= Threshold
UnderThreat == ThreatIn(influence, controller)

\* The threat row is never stale: after every statement, and after every
\* rollback, it names the controller, a strongest challenger and their gap.
\* It is kept by triggers on two tables that three statements change.
ThreatRowIsCurrent ==
    /\ threat.exists =>
        /\ threat.faction = controller
        /\ threat.challenger \in Challenger(influence, controller)
        /\ threat.gap = GapTo(influence, controller, threat.challenger)
        /\ threat.threatened = UnderThreat
    /\ ~threat.exists => controller \notin DOMAIN influence

\* Over the whole life of a system 'entered' and 'cleared' alternate, through
\* transactions that emit several of them and transactions that roll back.
EventsAlternate ==
    \A i \in DOMAIN emitted :
        emitted[i].status # IF i = 1 THEN announced ELSE emitted[i - 1].status

\* Between transactions the last event of the system tells the truth about the
\* committed tables: no flip of the threat goes unannounced.
AnnouncedIsCurrent == step = "none" => (announced = "entered" <=> UnderThreat)

\* The message keeps the committed controller and removes no faction.
OrdinaryMessage ==
    /\ message.controller \in {saved.controller, NoFaction}
    /\ DOMAIN saved.influence \subseteq DOMAIN message.states

\* An ordinary message is announced once, with the numbers of the state it
\* commits: no transient 'cleared' and 'entered' in one transaction.
OrdinaryMessageAnnouncesOnce ==
    step = "commit" /\ OrdinaryMessage =>
        /\ Len(emitted) <= 1
        /\ \A i \in DOMAIN emitted :
            /\ emitted[i].faction = controller
            /\ emitted[i].status = "entered" =>
                 emitted[i].challenger = threat.challenger /\ emitted[i].gap = threat.gap
            /\ emitted[i].status = "cleared" => emitted[i].gap <= Threshold

\* docs/sse.md: subscribers follow factions, and "`cleared` is emitted when the
\* gap rises back above `0.10`": a faction hears 'cleared' only after 'entered'.
\* Refuted: control moves between two threatened factions without an event, and
\* the threat that clears later names the new one.
ClearedAfterEntered ==
    step = "commit" =>
        \A i \in DOMAIN emitted :
            emitted[i].status = "cleared" =>
                \/ \E j \in 1..(i - 1) :
                     emitted[j].status = "entered" /\ emitted[j].faction = emitted[i].faction
                \/ heard[emitted[i].faction] = "entered"

=============================================================================
