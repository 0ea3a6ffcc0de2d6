---------------------------- MODULE SystemEvents ----------------------------
(***************************************************************************)
(* The presence, state and conflict events of one star system.             *)
(*                                                                         *)
(* A Location or FSDJump message replaces what the database knows of the   *)
(* system in one transaction (processPowerplayData, processFactionsData);  *)
(* row triggers compare each row before and after and put events into      *)
(* eventOutbox.  The relay publishes them in the order of createdAt.  A    *)
(* subscriber sees events only.  The question is whether what it was told  *)
(* last about a subject is what the tables say, and when it is not.        *)
(*                                                                         *)
(* Transactions on one system wait for its row (upsertSystem) and a failed *)
(* one leaves nothing, so what one does is a single step, its commit.  But *)
(* createdAt is when it began, and several may begin before they get the   *)
(* row: they are published in the order of their begins.  One relay runs.  *)
(***************************************************************************)
EXTENDS Naturals, Functions

CONSTANTS
    Factions,        \* factions, by id
    StateNames,      \* values of factionStateEnum
    ConflictTypes,   \* values of factionConflictTypeEnum
    Powers,          \* powerplay powers
    Messages,        \* the messages of the feed, of those possible
    MaxStart         \* bound: starts told apart at any time

VARIABLES
    known,           \* rows of factions
    present,         \* rows of systemFactions
    states,          \* rows of factionStates, by faction
    conflicts,       \* rows of factionConflicts, by faction and opponent
    powers,          \* rows of systemPowerplayPowers
    contested,       \* rows of powerplayConflicts, by power
    open,            \* starts of the transactions that have not committed
    outbox,          \* rows of eventOutbox about the subject
    subject,         \* what the subscriber wants to know
    heard,           \* the last word that was published about it
    reversed,        \* history: the last news were stamped before older ones
    blurred          \* history: the last news were two words, or none

factionVars == <<known, present, states, conflicts>>
powerVars == <<powers, contested>>
historyVars == <<reversed, blurred>>
vars == <<factionVars, powerVars, open, outbox, subject, heard, historyVars>>

Pairs == {p \in Factions \X Factions : p[1] # p[2]}
\* Both lists come from the message as they are: a state may be in both.
StateRow == [pending : SUBSET StateNames, active : SUBSET StateNames]
ConflictRow == [type : ConflictTypes, status : {"Pending", "Active", "Concluded"}]
NoStates == [pending |-> {}, active |-> {}]
NoConflict == [type |-> "none", status |-> "none"]

\* Functions from some elements of D to R: rows by key.
Rows(D, R) == UNION {[S -> R] : S \in SUBSET D}
Row(rows, key, missing) == IF key \in DOMAIN rows THEN rows[key] ELSE missing

\* What an event is about.  A conflict is told apart by its type, too, and is
\* told to those who follow the first faction of the pair: the row has it as
\* factionId.  Those who follow the opponent are told nothing.
PresenceOf(f) == [kind |-> "presence", faction |-> f]
StateOf(f, s) == [kind |-> "state", faction |-> f, state |-> s]
ConflictOf(p, t) == [kind |-> "conflict", pair |-> p, type |-> t]
StateSubjects == {StateOf(f, s) : f \in Factions, s \in StateNames}
Subjects == {PresenceOf(f) : f \in Factions} \cup StateSubjects
            \cup {ConflictOf(p, t) : p \in Pairs, t \in ConflictTypes}
Words == {"entered", "left", "pending", "active", "ended"}
Told(subjects, word) == [about : subjects, word : {word}]

Starts == 1 .. MaxStart
OutboxRow == [createdAt : Starts, word : Words]

\* What a message may say.
PossibleMessages ==
    [factions : Rows(Factions, StateRow), conflicts : Rows(Pairs, ConflictRow),
     powers : SUBSET Powers, contested : SUBSET Powers]

ASSUME EventsAssumption ==
    /\ Messages \subseteq PossibleMessages
    /\ MaxStart \in Nat

\* Tables that separate statements write agree: a faction is listed in the
\* system exactly if it has a row of states there, conflicts are between known
\* factions, and only powers of the system compete for it.
TablesAgree ==
    /\ present = DOMAIN states
    /\ \A p \in DOMAIN conflicts : {p[1], p[2]} \subseteq known
    /\ contested \subseteq powers

\* The shapes of the tables, of the outbox and of what the subscriber keeps.
TypeOK ==
    /\ known \subseteq Factions
    /\ present \subseteq known
    /\ states \in Rows(Factions, StateRow)
    /\ conflicts \in Rows(Pairs, ConflictRow)
    /\ powers \subseteq Powers
    /\ contested \subseteq Powers
    /\ open \subseteq Starts
    /\ outbox \subseteq OutboxRow
    /\ subject \in Subjects
    /\ heard \in Words
    /\ reversed \in BOOLEAN /\ blurred \in BOOLEAN
    /\ TablesAgree

-----------------------------------------------------------------------------
(* The triggers: what a transaction that turned the rows before into the   *)
(* rows after has put into eventOutbox.                                    *)

Presence(before, after) ==
    Told({PresenceOf(f) : f \in after \ before}, "entered")
    \cup Told({PresenceOf(f) : f \in before \ after}, "left")

\* Mutant of BecamePending: every pending state is told, new or not.
BecamePendingAgain(before, after) ==
    {x \in StateSubjects : x.state \in Row(after, x.faction, NoStates).pending}

\* emit_faction_state_lifecycle_events, a missing row has no states: the
\* subjects of each of its three loops.
BecamePending(before, after) ==
    {x \in StateSubjects : x.state \in Row(after, x.faction, NoStates).pending
                                       \ Row(before, x.faction, NoStates).pending}
BecameActive(before, after) ==
    {x \in StateSubjects : x.state \in Row(after, x.faction, NoStates).active
                                       \ Row(before, x.faction, NoStates).active}
Listed(row) == row.pending \cup row.active
\* Mutant of Ended: only an active state ends.
EndedActive(before, after) ==
    {x \in StateSubjects : x.state \in Row(before, x.faction, NoStates).active
                                       \ Listed(Row(after, x.faction, NoStates))}

Ended(before, after) ==
    {x \in StateSubjects : x.state \in Listed(Row(before, x.faction, NoStates))
                                       \ Listed(Row(after, x.faction, NoStates))}

\* enqueue_faction_conflict_changed_events: NULL unless Pending or Active.
Lifecycle(row) == CASE row.status = "Pending" -> "pending"
                    [] row.status = "Active" -> "active"
                    [] OTHER -> "null"

Changed(old, new) == Lifecycle(old) # Lifecycle(new) \/ old.type # new.type

ConflictEnded(before, after) ==
    Told({ConflictOf(p, before[p].type) : p \in
            {q \in DOMAIN before :
                /\ Lifecycle(before[q]) # "null"
                /\ Changed(before[q], Row(after, q, NoConflict))}}, "ended")
ConflictBegun(before, after, lifecycle) ==
    Told({ConflictOf(p, after[p].type) : p \in
            {q \in DOMAIN after :
                /\ Lifecycle(after[q]) = lifecycle
                /\ Changed(Row(before, q, NoConflict), after[q])}}, lifecycle)

\* All events of a step.
News ==
    Presence(present, present')
    \cup Told(BecamePending(states, states'), "pending")
    \cup Told(BecameActive(states, states'), "active")
    \cup Told(Ended(states, states'), "ended")
    \cup ConflictEnded(conflicts, conflicts')
    \cup ConflictBegun(conflicts, conflicts', "pending")
    \cup ConflictBegun(conflicts, conflicts', "active")

\* Its words about the subject.
NewWords == {e.word : e \in {d \in News : d.about = subject}}

-----------------------------------------------------------------------------
(* What the tables say about the subject.                                  *)

StatesOfSubject == Row(states, subject.faction, NoStates)
InBothLists == /\ subject.kind = "state"
               /\ subject.state \in StatesOfSubject.pending \cap StatesOfSubject.active
ConflictOfSubject == Row(conflicts, subject.pair, NoConflict)

\* The words that are true of it: both of a state in both lists.
Says ==
    CASE subject.kind = "presence" ->
            {IF subject.faction \in present THEN "entered" ELSE "left"}
      [] subject.kind = "state" ->
            {w \in {"pending", "active", "ended"} :
                CASE w = "pending" -> subject.state \in StatesOfSubject.pending
                  [] w = "active" -> subject.state \in StatesOfSubject.active
                  [] w = "ended" -> subject.state \notin Listed(StatesOfSubject)}
      [] subject.kind = "conflict" ->
            {IF ConflictOfSubject.type = subject.type /\ Lifecycle(ConflictOfSubject) # "null"
             THEN Lifecycle(ConflictOfSubject) ELSE "ended"}

\* What may have been heard instead after a blur, while the subject goes on:
\* either word about a state, and of a conflict that it ended.
Blur ==
    IF subject.kind = "presence" \/ Says = {"ended"} THEN {}
    ELSE IF subject.kind = "state" THEN {"pending", "active"} ELSE Says \cup {"ended"}

-----------------------------------------------------------------------------

\* An empty database and a subscriber that was told nothing.
Init ==
    /\ known = {} /\ present = {} /\ powers = {} /\ contested = {}
    /\ states = [f \in {} |-> NoStates]
    /\ conflicts = [p \in {} |-> NoConflict]
    /\ open = {} /\ outbox = {}
    /\ subject \in Subjects
    /\ heard = IF subject.kind = "presence" THEN "left" ELSE "ended"
    /\ reversed = FALSE /\ blurred = FALSE

\* The starts later than all that still matter.  Numbers come again once they
\* do not, so the least will do.
Later == {k \in Starts : \A i \in open \cup {r.createdAt : r \in outbox} : i < k}

\* The transaction of a message begins (it then waits for the system's row).
BeginMessage(n) ==
    /\ n \in Later
    /\ \A k \in Later : n <= k
    /\ open' = open \cup {n}
    /\ UNCHANGED <<factionVars, powerVars, outbox, subject, heard, historyVars>>

\* It fails, or its message is dropped as one without a sign of population.
AbortMessage(n) ==
    /\ open' = open \ {n}
    /\ UNCHANGED <<factionVars, powerVars, outbox, subject, heard, historyVars>>

\* The powers replace those of the system, and so do the conflicts that name
\* one of them.
ProcessPowerplayData(m) ==
    /\ powers' = m.powers
    /\ contested' = m.contested \cap m.powers

\* upsertFactionConflicts: conflicts of factions without a row are skipped.
ConflictsOf(m, factions) ==
    Restrict(m.conflicts, {p \in DOMAIN m.conflicts : p[1] \in factions /\ p[2] \in factions})

\* Mutant of ProcessFactionsData: a faction that left keeps its states.
ProcessFactionsDataNoCleanup(m) ==
    LET factions == DOMAIN m.factions IN
    /\ known' = known \cup factions
    /\ present' = factions
    /\ states' = [f \in factions \cup DOMAIN states |-> Row(m.factions, f, Row(states, f, NoStates))]
    /\ conflicts' = ConflictsOf(m, known \cup factions)

\* processFactionsData, after its early return for a message without factions.
ProcessFactionsData(m) ==
    LET factions == DOMAIN m.factions IN
    /\ known' = known \cup factions
    /\ present' = factions
    /\ states' = m.factions
    /\ conflicts' = ConflictsOf(m, known \cup factions)

\* The rows a transaction that began at n leaves in eventOutbox, and what
\* becomes of the history.  A state that left one of two lists is no news.
Stamp(n) ==
    LET words == NewWords IN
    /\ outbox' = outbox \cup [createdAt : {n}, word : words]
    /\ IF words = {}
       THEN /\ reversed' = reversed
            /\ blurred' = (blurred \/ (InBothLists /\ ~InBothLists'))
       ELSE /\ reversed' = (\E r \in outbox : n < r.createdAt)
            /\ blurred' = (\E v, w \in words : v # w)

\* The commit of processLocationEvent or processFSDJumpEvent; a message without
\* factions may still show population by its powers.
FullMessage(n, m) ==
    /\ ProcessPowerplayData(m)
    /\ IF DOMAIN m.factions = {} THEN UNCHANGED factionVars ELSE ProcessFactionsData(m)
    /\ open' = open \ {n}
    /\ UNCHANGED <<subject, heard>>
    /\ Stamp(n)

\* upsertStationFromDocked and upsertStationFromLocation of any system store
\* the faction that owns the station.
FactionSeen(f) ==
    /\ known' = known \cup {f}
    /\ UNCHANGED <<present, states, conflicts, powerVars, open, outbox, subject, heard,
                   historyVars>>

\* The relay: rows of one transaction have one createdAt, ties come in any order.
Publish(r) ==
    /\ \A s \in outbox : r.createdAt <= s.createdAt
    /\ heard' = r.word
    /\ outbox' = outbox \ {r}
    /\ UNCHANGED <<factionVars, powerVars, open, subject, historyVars>>

\* A batch up to this row was published and rolled back: its rows stay.
PublishInVain(r) ==
    /\ heard' = r.word
    /\ UNCHANGED <<factionVars, powerVars, open, outbox, subject, historyVars>>

Next == \/ \E n \in Starts : BeginMessage(n)
        \/ \E n \in open : AbortMessage(n) \/ \E m \in Messages : FullMessage(n, m)
        \/ \E f \in Factions : FactionSeen(f)
        \/ \E r \in outbox : Publish(r) \/ PublishInVain(r)

Spec == Init /\ [][Next]_vars

-----------------------------------------------------------------------------

\* Once its rows are published, a subscriber that keeps the last event about a
\* subject knows what the tables say of it, after any sequence of messages.  There
\* are two exceptions, until the next event about the subject.  A transaction
\* that waited for the system behind one that began later is published before
\* it (reversed).  And a blur: one transaction told two words, of which either
\* comes last, or a state that was in both lists left one, which is told to
\* nobody.  Even after a blur a state that goes on is not heard as ended, what has
\* ended is heard as ended, and presence is exact.
EventsTellTheTables ==
    outbox = {} /\ ~reversed => heard \in (IF blurred THEN Blur ELSE Says)

\* The words that may come last of those not yet published, or that came last.
LastWords ==
    IF outbox = {} THEN {heard}
    ELSE {r.word : r \in {s \in outbox : \A d \in outbox : d.createdAt <= s.createdAt}}

\* Nothing is announced that did not happen: no transaction tells a word that
\* the subscriber heard or will have heard last anyway, but after a reversal or
\* a blur.
EveryWordIsNews == [][~reversed /\ ~blurred => NewWords \cap LastWords = {}]_vars
=============================================================================
