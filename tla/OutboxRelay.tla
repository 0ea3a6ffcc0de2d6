---------------------------- MODULE OutboxRelay ----------------------------
(***************************************************************************)
(* EventOutboxRelay (apps/api/src/realtime/eventOutboxRelay.ts): a loop    *)
(* that reads a batch of eventOutbox rows FOR UPDATE SKIP LOCKED,          *)
(* publishes each to Redis and deletes it, in one database transaction.    *)
(*                                                                         *)
(* Worker transactions (apps/eddn-worker) fill the table through triggers. *)
(* The createdAt of a row is the START of its transaction, and the row is  *)
(* visible when the transaction commits.  Two relays exist while two API   *)
(* processes overlap.  PostgreSQL and the worker are external: row locks,  *)
(* rollback and visibility are modelled as the relay relies on them.       *)
(***************************************************************************)
EXTENDS Naturals, Sequences, FiniteSets

CONSTANTS
    Relays,       \* EventOutboxRelay instances, one per API process
    Txs,          \* worker transactions that write outbox rows
    Events,       \* outbox rows
    TxOf,         \* the transaction that writes a row
    Kind,         \* "faction", "powerplay" or "invalid" (unknown type or payload)
    Powers,       \* power ids
    NoRelay,      \* nobody
    Channel,      \* the channel of a faction event
    BatchSize,    \* batchSize of the relay
    MaxFaults     \* bound: failed relay transactions, resent commands, crashes, stops

Targets == Powers \cup {Channel}

ASSUME RelayAssumption ==
    /\ IsFiniteSet(Events)
    /\ TxOf \in [Events -> Txs]
    /\ Kind \in [Events -> {"faction", "powerplay", "invalid"}]
    /\ NoRelay \notin Relays
    /\ Channel \notin Powers
    /\ BatchSize \in Nat \ {0}
    /\ MaxFaults \in Nat

VARIABLES
    txState,      \* per worker transaction
    createdAt,    \* per worker transaction: its start, the createdAt of its rows
    now,          \* next start time
    row,          \* per row: "absent", "visible" or "deleted"
    lockedBy,     \* the relay whose transaction holds the row lock
    powers,       \* SystemPowerplayPowers of the system of the powerplay events
    running,      \* isRunning
    shouldStop,   \* shouldStop
    step,         \* where the loop is
    todo,         \* rows of the batch not yet processed, in order
    targets,      \* publish targets of the head of todo still to publish
    deleted,      \* rows deleted in the open transaction
    sent,         \* history: publications per row and channel
    settled,      \* history: rows that were once published in full or discarded
    before,       \* history: the rows committed before a transaction committed
    overlapped,   \* history: two relays have had a batch at the same time
    faults        \* history: faults so far

tableVars  == <<txState, createdAt, now, row, powers>>
relayVars  == <<running, shouldStop, step, todo, targets, deleted>>
historyVars == <<sent, settled, before, overlapped, faults>>
vars == <<tableVars, lockedBy, relayVars, historyVars>>

TypeOK ==
    /\ txState \in [Txs -> {"idle", "open", "committed", "aborted"}]
    /\ createdAt \in [Txs -> Nat]
    /\ now \in Nat
    /\ row \in [Events -> {"absent", "visible", "deleted"}]
    /\ lockedBy \in [Events -> Relays \cup {NoRelay}]
    /\ powers \subseteq Powers
    /\ running \in [Relays -> BOOLEAN]
    /\ shouldStop \in [Relays -> BOOLEAN]
    /\ step \in [Relays -> {"idle", "row", "publish"}]
    /\ todo \in [Relays -> Seq(Events)]
    /\ targets \in [Relays -> SUBSET Targets]
    /\ deleted \in [Relays -> SUBSET Events]
    /\ sent \in [Events -> [Targets -> Nat]]
    /\ settled \subseteq Events
    /\ before \in [Txs -> SUBSET Events]
    /\ overlapped \in BOOLEAN
    /\ faults \in Nat

Init ==
    /\ txState = [t \in Txs |-> "idle"]
    /\ createdAt = [t \in Txs |-> 0]
    /\ now = 0
    /\ row = [e \in Events |-> "absent"]
    /\ lockedBy = [e \in Events |-> NoRelay]
    /\ powers \in SUBSET Powers
    /\ running = [r \in Relays |-> FALSE]
    /\ shouldStop = [r \in Relays |-> FALSE]
    /\ step = [r \in Relays |-> "idle"]
    /\ todo = [r \in Relays |-> <<>>]
    /\ targets = [r \in Relays |-> {}]
    /\ deleted = [r \in Relays |-> {}]
    /\ sent = [e \in Events |-> [x \in Targets |-> 0]]
    /\ settled = {}
    /\ before = [t \in Txs |-> {}]
    /\ overlapped = FALSE
    /\ faults = 0

-----------------------------------------------------------------------------
(* The worker's transactions.                                              *)

Committed == {e \in Events : row[e] # "absent"}

BeginTx(t) ==
    /\ txState[t] = "idle"
    /\ txState' = [txState EXCEPT ![t] = "open"]
    /\ createdAt' = [createdAt EXCEPT ![t] = now]
    /\ now' = now + 1
    /\ UNCHANGED <<row, powers, lockedBy, relayVars, historyVars>>

\* The rows become visible together.  Whatever was committed until now the
\* transaction may have read, or waited for: its statements are READ COMMITTED.
\* One with a powerplay event also writes the powers of the system.
CommitTx(t) ==
    /\ txState[t] = "open"
    /\ txState' = [txState EXCEPT ![t] = "committed"]
    /\ row' = [e \in Events |-> IF TxOf[e] = t THEN "visible" ELSE row[e]]
    /\ IF \E e \in Events : TxOf[e] = t /\ Kind[e] = "powerplay"
       THEN powers' \in SUBSET Powers
       ELSE UNCHANGED powers
    /\ before' = [before EXCEPT ![t] = Committed]
    /\ UNCHANGED <<createdAt, now, lockedBy, relayVars, sent, settled, overlapped, faults>>

AbortTx(t) ==
    /\ txState[t] = "open"
    /\ txState' = [txState EXCEPT ![t] = "aborted"]
    /\ UNCHANGED <<createdAt, now, row, powers, lockedBy, relayVars, historyVars>>

-----------------------------------------------------------------------------
(* The life of the loop.                                                   *)

Start(r) ==
    /\ ~running[r]
    /\ running' = [running EXCEPT ![r] = TRUE]
    /\ shouldStop' = [shouldStop EXCEPT ![r] = FALSE]
    /\ UNCHANGED <<tableVars, lockedBy, step, todo, targets, deleted, historyVars>>

Stop(r) ==
    /\ running[r]
    /\ ~shouldStop[r]
    /\ faults < MaxFaults
    /\ shouldStop' = [shouldStop EXCEPT ![r] = TRUE]
    /\ faults' = faults + 1
    /\ UNCHANGED <<tableVars, lockedBy, running, step, todo, targets, deleted,
                   sent, settled, before, overlapped>>

\* The loop sees shouldStop between two transactions; stop() then clears
\* isRunning.
LoopEnds(r) ==
    /\ running[r]
    /\ shouldStop[r]
    /\ step[r] = "idle"
    /\ running' = [running EXCEPT ![r] = FALSE]
    /\ UNCHANGED <<tableVars, lockedBy, shouldStop, step, todo, targets, deleted,
                   historyVars>>

-----------------------------------------------------------------------------
(* One transaction of the loop.                                            *)

\* Mutant of Available: the SELECT does not lock, or does not skip locked rows.
AvailableUnlocked == {e \in Events : row[e] = "visible"}

\* Rows the SELECT may return: committed, not deleted, not locked.
Available == {e \in Events : row[e] = "visible" /\ lockedBy[e] = NoRelay}
CreatedAt(e) == createdAt[TxOf[e]]

SmallerOf(m, n) == IF m < n THEN m ELSE n

\* Mutant of Batches: no ORDER BY.
BatchesUnordered ==
    LET size == SmallerOf(BatchSize, Cardinality(Available)) IN
    {b \in [1..size -> Available] : \A i, j \in 1..size : i < j => b[i] # b[j]}

\* ORDER BY createdAt LIMIT batchSize: oldest first, ties in any order.
Batches ==
    LET size == SmallerOf(BatchSize, Cardinality(Available)) IN
    {b \in [1..size -> Available] :
        /\ \A i, j \in 1..size :
             i < j => b[i] # b[j] /\ CreatedAt(b[i]) <= CreatedAt(b[j])
        /\ \A e \in Available, i \in 1..size :
             (\A j \in 1..size : b[j] # e) => CreatedAt(b[i]) <= CreatedAt(e)}

BatchOpen(r) == step[r] # "idle"

\* fetchBatch finds nothing: the transaction ends and the loop sleeps.
IdlePoll(r) ==
    /\ running[r]
    /\ ~shouldStop[r]
    /\ step[r] = "idle"
    /\ Available = {}
    /\ UNCHANGED vars

\* fetchBatch: the rows are read and locked.
Fetch(r) ==
    /\ running[r]
    /\ ~shouldStop[r]
    /\ step[r] = "idle"
    /\ Available # {}
    /\ \E b \in Batches :
        /\ todo' = [todo EXCEPT ![r] = b]
        /\ lockedBy' = [e \in Events |->
                          IF \E i \in DOMAIN b : b[i] = e THEN r ELSE lockedBy[e]]
    /\ step' = [step EXCEPT ![r] = "row"]
    /\ overlapped' = (overlapped \/ \E q \in Relays \ {r} : BatchOpen(q))
    /\ UNCHANGED <<tableVars, running, shouldStop, targets, deleted, sent, settled,
                   before, faults>>

\* prepareRowForPublishing: the channels of the row, none for a row to discard.
\* The powers are those of the moment, not those of the event.
TargetsOf(e) ==
    {x \in Targets :
        \/ Kind[e] = "faction" /\ x = Channel
        \/ Kind[e] = "powerplay" /\ x \in powers}

\* Mutant of ProcessRow: a row to discard is skipped and left in the table.
ProcessRowSkips(r) ==
    /\ step[r] = "row"
    /\ todo[r] # <<>>
    /\ LET e == Head(todo[r]) IN
        IF TargetsOf(e) = {}
        THEN /\ todo' = [todo EXCEPT ![r] = Tail(@)]
             /\ UNCHANGED <<step, targets, settled>>
        ELSE /\ targets' = [targets EXCEPT ![r] = TargetsOf(e)]
             /\ step' = [step EXCEPT ![r] = "publish"]
             /\ UNCHANGED <<todo, settled>>
    /\ UNCHANGED <<tableVars, lockedBy, running, shouldStop, deleted, sent, before,
                   overlapped, faults>>

\* processRow up to its first publication, or to the end of a discard.
ProcessRow(r) ==
    /\ step[r] = "row"
    /\ todo[r] # <<>>
    /\ LET e == Head(todo[r]) IN
        IF TargetsOf(e) = {}
        THEN /\ deleted' = [deleted EXCEPT ![r] = @ \cup {e}]
             /\ todo' = [todo EXCEPT ![r] = Tail(@)]
             /\ settled' = settled \cup {e}
             /\ UNCHANGED <<step, targets>>
        ELSE /\ targets' = [targets EXCEPT ![r] = TargetsOf(e)]
             /\ step' = [step EXCEPT ![r] = "publish"]
             /\ UNCHANGED <<deleted, todo, settled>>
    /\ UNCHANGED <<tableVars, lockedBy, running, shouldStop, sent, before,
                   overlapped, faults>>

\* One turn of publishTargets.
Publish(r) ==
    /\ step[r] = "publish"
    /\ \E x \in targets[r] :
        /\ sent' = [sent EXCEPT ![Head(todo[r])][x] = @ + 1]
        /\ targets' = [targets EXCEPT ![r] = @ \ {x}]
    /\ UNCHANGED <<tableVars, lockedBy, running, shouldStop, step, todo, deleted,
                   settled, before, overlapped, faults>>

\* The connection to Redis is lost after Redis ran a PUBLISH and before its
\* reply: the client sends the command again.
PublishResent(r) ==
    /\ step[r] = "publish"
    /\ faults < MaxFaults
    /\ \E x \in targets[r] :
        /\ sent' = [sent EXCEPT ![Head(todo[r])][x] = @ + 2]
        /\ targets' = [targets EXCEPT ![r] = @ \ {x}]
    /\ faults' = faults + 1
    /\ UNCHANGED <<tableVars, lockedBy, running, shouldStop, step, todo, deleted,
                   settled, before, overlapped>>

\* Mutant of DeleteRow: the row is deleted while a publication is outstanding.
DeleteRowEarly(r) ==
    /\ step[r] = "publish"
    /\ deleted' = [deleted EXCEPT ![r] = @ \cup {Head(todo[r])}]
    /\ settled' = settled \cup {Head(todo[r])}
    /\ todo' = [todo EXCEPT ![r] = Tail(@)]
    /\ targets' = [targets EXCEPT ![r] = {}]
    /\ step' = [step EXCEPT ![r] = "row"]
    /\ UNCHANGED <<tableVars, lockedBy, running, shouldStop, sent, before,
                   overlapped, faults>>

\* deleteOutboxRow after the last publication.
DeleteRow(r) ==
    /\ step[r] = "publish"
    /\ targets[r] = {}
    /\ deleted' = [deleted EXCEPT ![r] = @ \cup {Head(todo[r])}]
    /\ settled' = settled \cup {Head(todo[r])}
    /\ todo' = [todo EXCEPT ![r] = Tail(@)]
    /\ step' = [step EXCEPT ![r] = "row"]
    /\ UNCHANGED <<tableVars, lockedBy, running, shouldStop, targets, sent, before,
                   overlapped, faults>>

\* The transaction ends and gives its locks back.
EndOfTransaction(r) ==
    /\ lockedBy' = [e \in Events |-> IF lockedBy[e] = r THEN NoRelay ELSE lockedBy[e]]
    /\ step' = [step EXCEPT ![r] = "idle"]
    /\ todo' = [todo EXCEPT ![r] = <<>>]
    /\ targets' = [targets EXCEPT ![r] = {}]
    /\ deleted' = [deleted EXCEPT ![r] = {}]

\* Mutant of Commit: published rows are marked and stay in the table.
CommitMarks(r) ==
    /\ step[r] = "row"
    /\ todo[r] = <<>>
    /\ row' = [e \in Events |-> IF e \in deleted[r] THEN "published" ELSE row[e]]
    /\ EndOfTransaction(r)
    /\ UNCHANGED <<txState, createdAt, now, powers, running, shouldStop, historyVars>>

Commit(r) ==
    /\ step[r] = "row"
    /\ todo[r] = <<>>
    /\ row' = [e \in Events |-> IF e \in deleted[r] THEN "deleted" ELSE row[e]]
    /\ EndOfTransaction(r)
    /\ UNCHANGED <<txState, createdAt, now, powers, running, shouldStop, historyVars>>

\* A statement or a publication fails: rollback, and the loop goes on.
Rollback(r) ==
    /\ BatchOpen(r)
    /\ faults < MaxFaults
    /\ EndOfTransaction(r)
    /\ faults' = faults + 1
    /\ UNCHANGED <<tableVars, running, shouldStop, sent, settled, before, overlapped>>

\* The API process dies; its database connection rolls back.
Crash(r) ==
    /\ running[r]
    /\ faults < MaxFaults
    /\ running' = [running EXCEPT ![r] = FALSE]
    /\ EndOfTransaction(r)
    /\ faults' = faults + 1
    /\ UNCHANGED <<tableVars, shouldStop, sent, settled, before, overlapped>>

Work(r) ==
    Fetch(r) \/ ProcessRow(r) \/ Publish(r) \/ DeleteRow(r) \/ Commit(r)

Next ==
    \/ \E t \in Txs : BeginTx(t) \/ CommitTx(t) \/ AbortTx(t)
    \/ \E r \in Relays :
        \/ Start(r) \/ Stop(r) \/ LoopEnds(r)
        \/ Work(r) \/ IdlePoll(r)
        \/ PublishResent(r) \/ Rollback(r) \/ Crash(r)

\* The loop runs while it is not stopped, and a stopped relay is started
\* again by the next Redis 'ready' or the next process.
Fairness == \A r \in Relays : WF_vars(Work(r)) /\ WF_vars(Start(r)) /\ WF_vars(LoopEnds(r))

Spec == Init /\ [][Next]_vars
FairSpec == Spec /\ Fairness

-----------------------------------------------------------------------------
(* Properties.                                                             *)

\* What the abstract outbox sees of the table and of the publications.
StoreOf == [e \in Events |->
              CASE row[e] = "absent" -> "absent"
                [] row[e] = "visible" -> "stored"
                [] row[e] = "deleted" -> "gone"]
DeliveredOf == [e \in Events |-> {x \in Targets : sent[e][x] > 0}]
FactionEvents == {e \in Events : Kind[e] = "faction"}

Promise == INSTANCE OutboxDelivery WITH
    MustDeliver <- FactionEvents, store <- StoreOf, delivered <- DeliveredOf

\* The relay implements the promise of the outbox: a row that leaves the
\* table had its event published, through any rollback, crash or overlap.
ImplementsPromise == Promise!Spec

\* Two relays never publish the same row in two transactions that both
\* succeed: a channel gets an event at most once more per failed transaction
\* or resent command, so exactly once when nothing fails (FOR UPDATE SKIP LOCKED).
DuplicatesOnlyFromFaults ==
    \A e \in Events, x \in Targets : sent[e][x] <= 1 + faults

\* What was there before a transaction committed, if it is of one that began
\* before it, too.
Causes(t) == {f \in before[t] : CreatedAt(f) < createdAt[t]}

\* While no two relays overlap, an event is not published before one that both
\* began and was committed earlier, in whatever order rows become visible.  That
\* is all that createdAt can give: a transaction that began first, waited for
\* another one and was committed after it is published before it (what that does
\* to a subscriber is in SystemEvents).
CausalOrder ==
    ~overlapped =>
        \A e \in Events :
            (\E x \in Targets : sent[e][x] > 0) => Causes(TxOf[e]) \subseteq settled

\* Every row is eventually published or discarded, and deleted.
EventuallyRetired == \A e \in Events : row[e] = "visible" ~> row[e] = "deleted"

=============================================================================
