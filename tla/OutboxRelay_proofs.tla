------------------------- MODULE OutboxRelay_proofs -------------------------
(***************************************************************************)
(* Proofs about EventOutboxRelay for any relays, transactions, rows,       *)
(* powers and batch size: type correctness, that the relay implements the  *)
(* promise of the outbox, and how often an event can be published.         *)
(***************************************************************************)
EXTENDS OutboxRelay, FiniteSetTheorems, SequenceTheorems, TLAPS

-----------------------------------------------------------------------------
(* The batches the SELECT may return.                                      *)

\* A batch is a sequence without repetitions of available rows.
LEMMA BatchRows ==
    ASSUME TypeOK, NEW b \in Batches
    PROVE  /\ b \in Seq(Events)
           /\ \A i \in 1..Len(b) : row[b[i]] = "visible" /\ lockedBy[b[i]] = NoRelay
           /\ \A i, j \in 1..Len(b) : i # j => b[i] # b[j]
<1> DEFINE size == SmallerOf(BatchSize, Cardinality(Available))
<1>1. size \in Nat
  <2>1. IsFiniteSet(Available)
    BY RelayAssumption, FS_Subset DEF Available
  <2> QED
    BY <2>1, FS_CardinalityType, RelayAssumption DEF SmallerOf
<1>2. /\ b \in [1..size -> Available]
      /\ \A i, j \in 1..size : i < j => b[i] # b[j]
  BY DEF Batches
<1> HIDE DEF size
<1>3. b \in Seq(Available) /\ Len(b) = size
  BY <1>1, <1>2
<1>4. \A i, j \in 1..size : i # j => b[i] # b[j]
  <2> SUFFICES ASSUME NEW i \in 1..size, NEW j \in 1..size, i # j PROVE b[i] # b[j]
    OBVIOUS
  <2>1. i < j \/ j < i
    BY <1>1
  <2> QED
    BY <1>2, <2>1
<1>5. \A i \in 1..Len(b) : b[i] \in Available
  BY <1>2, <1>3
<1> QED
  BY <1>3, <1>4, <1>5 DEF Available

-----------------------------------------------------------------------------
(* Type correctness.                                                       *)

\* A row that is being published is the head of a batch.
RowAtHand == \A r \in Relays : step[r] = "publish" => todo[r] # <<>>

\* The parts of the types that an action of a relay may disturb.
LoopTyped ==
    /\ running \in [Relays -> BOOLEAN]
    /\ shouldStop \in [Relays -> BOOLEAN]
    /\ step \in [Relays -> {"idle", "row", "publish"}]
    /\ todo \in [Relays -> Seq(Events)]
    /\ targets \in [Relays -> SUBSET Targets]
    /\ deleted \in [Relays -> SUBSET Events]
TableTyped ==
    /\ txState \in [Txs -> {"idle", "open", "committed", "aborted"}]
    /\ createdAt \in [Txs -> Nat]
    /\ now \in Nat
    /\ row \in [Events -> {"absent", "visible", "deleted"}]
    /\ powers \subseteq Powers
LocksTyped == lockedBy \in [Events -> Relays \cup {NoRelay}]
HistoryTyped ==
    /\ sent \in [Events -> [Targets -> Nat]]
    /\ settled \subseteq Events
    /\ before \in [Txs -> SUBSET Events]
    /\ overlapped \in BOOLEAN
    /\ faults \in Nat

LEMMA TypedParts == TypeOK <=> LoopTyped /\ TableTyped /\ LocksTyped /\ HistoryTyped
BY DEF TypeOK, LoopTyped, TableTyped, LocksTyped, HistoryTyped

\* A new table and relays that have not started are well typed.
LEMMA TypeInit == Init => TypeOK /\ RowAtHand
<1> SUFFICES ASSUME Init PROVE TypeOK /\ RowAtHand
  OBVIOUS
<1>1. LoopTyped /\ RowAtHand
  BY DEF Init, LoopTyped, RowAtHand
<1>2. TableTyped /\ LocksTyped
  BY DEF Init, TableTyped, LocksTyped
<1>3. HistoryTyped
  BY DEF Init, HistoryTyped
<1> QED
  BY <1>1, <1>2, <1>3, TypedParts

\* What the end of a transaction leaves.
LEMMA EndTyped ==
    ASSUME TypeOK, RowAtHand, NEW r \in Relays, EndOfTransaction(r)
    PROVE  /\ step' \in [Relays -> {"idle", "row", "publish"}]
           /\ todo' \in [Relays -> Seq(Events)]
           /\ targets' \in [Relays -> SUBSET Targets]
           /\ deleted' \in [Relays -> SUBSET Events]
           /\ LocksTyped' /\ RowAtHand'
<1>1. LocksTyped'
  BY DEF EndOfTransaction, TypeOK, LocksTyped
<1>2. RowAtHand'
  BY DEF EndOfTransaction, TypeOK, RowAtHand
<1> QED
  BY <1>1, <1>2 DEF EndOfTransaction, TypeOK

\* The sequence and the sets of a batch stay typed as the relay works on it.
LEMMA TypeStep == TypeOK /\ RowAtHand /\ [Next]_vars => TypeOK' /\ RowAtHand'
<1> SUFFICES ASSUME TypeOK, RowAtHand, [Next]_vars PROVE TypeOK' /\ RowAtHand'
  OBVIOUS
<1> SUFFICES LoopTyped' /\ TableTyped' /\ LocksTyped' /\ HistoryTyped' /\ RowAtHand'
  BY TypedParts DEF TypeOK, LoopTyped, TableTyped, LocksTyped, HistoryTyped
<1> DEFINE Goal == LoopTyped /\ TableTyped /\ LocksTyped /\ HistoryTyped /\ RowAtHand
<1>0. LoopTyped /\ TableTyped /\ LocksTyped /\ HistoryTyped
  BY TypedParts
<1>t. ASSUME UNCHANGED tableVars PROVE TableTyped'
  BY <1>0, <1>t DEF tableVars, TableTyped
<1>l. ASSUME UNCHANGED relayVars PROVE LoopTyped' /\ RowAtHand'
  BY <1>0, <1>l DEF relayVars, LoopTyped, RowAtHand
<1>k. ASSUME UNCHANGED lockedBy PROVE LocksTyped'
  BY <1>0, <1>k DEF LocksTyped
<1>h. ASSUME UNCHANGED historyVars PROVE HistoryTyped'
  BY <1>0, <1>h DEF historyVars, HistoryTyped
<1>1. ASSUME NEW t \in Txs, BeginTx(t) PROVE Goal'
  <2>1. TableTyped'
    BY <1>1, <1>0 DEF BeginTx, TableTyped
  <2> QED
    BY <1>1, <2>1, <1>l, <1>k, <1>h DEF BeginTx
<1>2. ASSUME NEW t \in Txs, CommitTx(t) PROVE Goal'
  <2>1. powers' \subseteq Powers
    BY <1>2, <1>0 DEF CommitTx, TableTyped
  <2>2. TableTyped'
    BY <1>2, <1>0, <2>1 DEF CommitTx, TableTyped
  <2>3. HistoryTyped'
    BY <1>2, <1>0 DEF CommitTx, HistoryTyped, Committed
  <2> QED
    BY <1>2, <2>2, <2>3, <1>l, <1>k DEF CommitTx
<1>3. ASSUME NEW t \in Txs, AbortTx(t) PROVE Goal'
  <2>1. TableTyped'
    BY <1>3, <1>0 DEF AbortTx, TableTyped
  <2> QED
    BY <1>3, <2>1, <1>l, <1>k, <1>h DEF AbortTx
<1>4. ASSUME NEW r \in Relays, Start(r) \/ Stop(r) \/ LoopEnds(r) PROVE Goal'
  <2>1. LoopTyped' /\ RowAtHand'
    BY <1>4, <1>0 DEF Start, Stop, LoopEnds, LoopTyped, RowAtHand
  <2>2. HistoryTyped'
    <3>1. UNCHANGED historyVars \/ faults' = faults + 1
      BY <1>4 DEF Start, Stop, LoopEnds
    <3> QED
      BY <1>4, <1>0, <3>1 DEF Start, Stop, LoopEnds, HistoryTyped, historyVars
  <2> QED
    BY <1>4, <2>1, <2>2, <1>t, <1>k DEF Start, Stop, LoopEnds
<1>5. ASSUME NEW r \in Relays, Fetch(r) PROVE Goal'
  <2>1. PICK b \in Batches :
           /\ todo' = [todo EXCEPT ![r] = b]
           /\ lockedBy' = [e \in Events |->
                             IF \E i \in DOMAIN b : b[i] = e THEN r ELSE lockedBy[e]]
    BY <1>5 DEF Fetch
  <2>2. b \in Seq(Events)
    BY BatchRows
  <2>3. todo' \in [Relays -> Seq(Events)]
    BY <2>1, <2>2, <1>0 DEF LoopTyped
  <2>4. LocksTyped'
    BY <2>1, <1>0 DEF LocksTyped
  <2>5. step' = [step EXCEPT ![r] = "row"] /\ UNCHANGED <<running, shouldStop, targets, deleted>>
    BY <1>5 DEF Fetch
  <2>6. LoopTyped'
    BY <1>0, <2>3, <2>5 DEF LoopTyped
  <2>7. RowAtHand'
    BY <1>0, <2>1, <2>5 DEF RowAtHand, LoopTyped
  <2>8. HistoryTyped'
    BY <1>5, <1>0 DEF Fetch, HistoryTyped
  <2> QED
    BY <1>5, <2>4, <2>6, <2>7, <2>8, <1>t DEF Fetch
<1>6. ASSUME NEW r \in Relays, ProcessRow(r) PROVE Goal'
  <2>1. todo[r] \in Seq(Events) /\ todo[r] # <<>>
    BY <1>6, <1>0 DEF ProcessRow, LoopTyped
  <2>2. Head(todo[r]) \in Events /\ Tail(todo[r]) \in Seq(Events)
    BY <2>1
  <2>3. TargetsOf(Head(todo[r])) \subseteq Targets
    BY DEF TargetsOf
  <2>4. todo' \in [Relays -> Seq(Events)]
    BY <1>6, <1>0, <2>2 DEF ProcessRow, LoopTyped
  <2>5. targets' \in [Relays -> SUBSET Targets]
    BY <1>6, <1>0, <2>3 DEF ProcessRow, LoopTyped
  <2>6. deleted' \in [Relays -> SUBSET Events] /\ settled' \subseteq Events
    <3>1. \/ /\ deleted' = [deleted EXCEPT ![r] = @ \cup {Head(todo[r])}]
             /\ settled' = settled \cup {Head(todo[r])}
          \/ UNCHANGED <<deleted, settled>>
      BY <1>6 DEF ProcessRow
    <3>2. deleted' \in [Relays -> SUBSET Events]
      <4>1. deleted[r] \cup {Head(todo[r])} \in SUBSET Events
        BY <1>0, <2>2 DEF LoopTyped
      <4> QED
        BY <3>1, <4>1, <1>0 DEF LoopTyped
    <3>3. settled' \subseteq Events
      BY <3>1, <1>0, <2>2 DEF HistoryTyped
    <3> QED
      BY <3>2, <3>3
  <2>7. step' \in [Relays -> {"idle", "row", "publish"}]
    BY <1>6, <1>0 DEF ProcessRow, LoopTyped
  <2>8. LoopTyped'
    BY <1>6, <1>0, <2>4, <2>5, <2>6, <2>7 DEF ProcessRow, LoopTyped
  <2>9. HistoryTyped'
    BY <1>6, <1>0, <2>6 DEF ProcessRow, HistoryTyped
  <2>10. RowAtHand'
    BY <1>6, <1>0 DEF ProcessRow, RowAtHand, LoopTyped
  <2> QED
    BY <1>6, <2>8, <2>9, <2>10, <1>t, <1>k DEF ProcessRow
<1>7. ASSUME NEW r \in Relays, Publish(r) \/ PublishResent(r) PROVE Goal'
  <2>1. PICK x \in targets[r], n \in {1, 2} :
           /\ sent' = [sent EXCEPT ![Head(todo[r])][x] = @ + n]
           /\ targets' = [targets EXCEPT ![r] = @ \ {x}]
    BY <1>7 DEF Publish, PublishResent
  <2>2. targets' \in [Relays -> SUBSET Targets] /\ x \in Targets
    BY <2>1, <1>0 DEF LoopTyped
  <2>3. Head(todo[r]) \in Events
    BY <1>7, <1>0 DEF Publish, PublishResent, RowAtHand, LoopTyped
  <2>4. sent' \in [Events -> [Targets -> Nat]]
    <3>1. sent[Head(todo[r])] \in [Targets -> Nat]
      BY <2>3, <1>0 DEF HistoryTyped
    <3>2. [sent[Head(todo[r])] EXCEPT ![x] = @ + n] \in [Targets -> Nat]
      BY <3>1, <2>2
    <3> QED
      BY <2>1, <2>3, <3>2, <1>0 DEF HistoryTyped
  <2>5. HistoryTyped'
    BY <1>7, <1>0, <2>4 DEF Publish, PublishResent, HistoryTyped
  <2>6. LoopTyped' /\ RowAtHand'
    BY <1>7, <1>0, <2>2 DEF Publish, PublishResent, LoopTyped, RowAtHand
  <2> QED
    BY <1>7, <2>5, <2>6, <1>t, <1>k DEF Publish, PublishResent
<1>8. ASSUME NEW r \in Relays, DeleteRow(r) PROVE Goal'
  <2>1. todo[r] \in Seq(Events) /\ todo[r] # <<>>
    BY <1>8, <1>0 DEF DeleteRow, LoopTyped, RowAtHand
  <2>2. Head(todo[r]) \in Events /\ Tail(todo[r]) \in Seq(Events)
    BY <2>1
  <2>3. LoopTyped'
    BY <1>8, <1>0, <2>2 DEF DeleteRow, LoopTyped
  <2>4. HistoryTyped'
    BY <1>8, <1>0, <2>2 DEF DeleteRow, HistoryTyped
  <2>5. RowAtHand'
    BY <1>8, <1>0 DEF DeleteRow, RowAtHand, LoopTyped
  <2> QED
    BY <1>8, <2>3, <2>4, <2>5, <1>t, <1>k DEF DeleteRow
<1>9. ASSUME NEW r \in Relays, Commit(r) \/ Rollback(r) \/ Crash(r) PROVE Goal'
  <2>1. EndOfTransaction(r)
    BY <1>9 DEF Commit, Rollback, Crash
  <2>2. running' \in [Relays -> BOOLEAN] /\ shouldStop' \in [Relays -> BOOLEAN]
    BY <1>9, <1>0 DEF Commit, Rollback, Crash, LoopTyped
  <2>3. LoopTyped' /\ LocksTyped' /\ RowAtHand'
    BY <2>1, <2>2, EndTyped DEF LoopTyped
  <2>4. TableTyped'
    BY <1>9, <1>0 DEF Commit, Rollback, Crash, TableTyped, tableVars
  <2>5. HistoryTyped'
    BY <1>9, <1>0 DEF Commit, Rollback, Crash, HistoryTyped, historyVars
  <2> QED
    BY <2>3, <2>4, <2>5
<1>10. ASSUME UNCHANGED vars PROVE Goal'
  BY <1>10, <1>t, <1>l, <1>k, <1>h DEF vars
<1> QED
  BY <1>1, <1>2, <1>3, <1>4, <1>5, <1>6, <1>7, <1>8, <1>9, <1>10 DEF Next, Work, IdlePoll

\* The relay's state is well typed for any rows, relays and faults: what it
\* deletes and publishes are rows, and what it publishes to are channels.
THEOREM TypeCorrect == Spec => []TypeOK
<1>1. Spec => [](TypeOK /\ RowAtHand)
  BY TypeInit, TypeStep, PTL DEF Spec
<1> QED
  BY <1>1, PTL

-----------------------------------------------------------------------------
(* What a relay holds while its transaction is open.                       *)

Rows(s) == {s[i] : i \in 1..Len(s)}
NoRepeat(s) == \A i, j \in 1..Len(s) : i # j => s[i] # s[j]

\* What is left of a batch when its head is done.
LEMMA HeadAndTail ==
    ASSUME NEW s \in Seq(Events), s # <<>>
    PROVE  /\ Head(s) \in Events /\ Tail(s) \in Seq(Events)
           /\ Rows(s) = {Head(s)} \cup Rows(Tail(s))
           /\ NoRepeat(s) => Head(s) \notin Rows(Tail(s)) /\ NoRepeat(Tail(s))
<1>1. /\ Len(s) \in Nat \ {0} /\ Head(s) = s[1] /\ Head(s) \in Events
      /\ Tail(s) \in Seq(Events) /\ Len(Tail(s)) = Len(s) - 1
      /\ \A i \in 1..Len(Tail(s)) : Tail(s)[i] = s[i + 1] /\ i + 1 \in 1..Len(s)
  OBVIOUS
<1>2. Rows(s) \subseteq {Head(s)} \cup Rows(Tail(s))
  <2> SUFFICES ASSUME NEW i \in 1..Len(s), i # 1 PROVE s[i] \in Rows(Tail(s))
    BY <1>1 DEF Rows
  <2>1. i - 1 \in 1..Len(Tail(s)) /\ Tail(s)[i - 1] = s[i]
    BY <1>1
  <2> QED
    BY <2>1 DEF Rows
<1>3. {Head(s)} \cup Rows(Tail(s)) \subseteq Rows(s)
  <2>1. 1 \in 1..Len(s)
    BY <1>1
  <2> QED
    BY <1>1, <2>1 DEF Rows
<1>4. ASSUME NoRepeat(s) PROVE Head(s) \notin Rows(Tail(s))
  BY <1>1, <1>4 DEF Rows, NoRepeat
<1>5. ASSUME NoRepeat(s) PROVE NoRepeat(Tail(s))
  BY <1>1, <1>5 DEF NoRepeat
<1> QED
  BY <1>1, <1>2, <1>3, <1>4, <1>5

LEMMA EmptyBatch == Rows(<<>>) = {} /\ NoRepeat(<<>>)
BY DEF Rows, NoRepeat

\* The rows of a transaction appear when it commits, and not before.
RowsOfTx == \A e \in Events : row[e] # "absent" <=> txState[TxOf[e]] = "committed"

\* A relay has locked exactly the rows of its batch, processed or not, and
\* every one of them is in the table; between transactions it has none.
Locked(r) == {e \in Events : lockedBy[e] = r}
Held ==
    \A r \in Relays :
        /\ Rows(todo[r]) \cup deleted[r] = Locked(r)
        /\ Rows(todo[r]) \cap deleted[r] = {}
        /\ NoRepeat(todo[r])
        /\ \A e \in Locked(r) : row[e] = "visible"
        /\ step[r] = "idle" => todo[r] = <<>> /\ deleted[r] = {}

\* A faction event that the open transaction deletes has been published, and
\* one that is at hand has been or will be.
FactionsPublished ==
    \A r \in Relays :
        /\ \A e \in deleted[r] : Kind[e] = "faction" => sent[e][Channel] > 0
        /\ step[r] = "publish" /\ Kind[Head(todo[r])] = "faction" =>
             Channel \in targets[r] \/ sent[Head(todo[r])][Channel] > 0

Typed == TypeOK /\ TypeOK' /\ RowAtHand

LEMMA RelayInit == Init => RowsOfTx /\ Held /\ FactionsPublished
<1> SUFFICES ASSUME Init PROVE RowsOfTx /\ Held /\ FactionsPublished
  OBVIOUS
<1>1. RowsOfTx
  BY RelayAssumption DEF Init, RowsOfTx
<1>2. Held
  BY RelayAssumption, EmptyBatch DEF Init, Held, Locked
<1>3. FactionsPublished
  BY DEF Init, FactionsPublished
<1> QED
  BY <1>1, <1>2, <1>3

LEMMA RowsOfTxStep == Typed /\ RowsOfTx /\ Held /\ [Next]_vars => RowsOfTx'
<1> SUFFICES ASSUME Typed, RowsOfTx, Held, [Next]_vars PROVE RowsOfTx'
  OBVIOUS
<1> USE RelayAssumption DEF Typed, TypeOK, RowsOfTx
<1>1. ASSUME NEW t \in Txs, BeginTx(t) PROVE RowsOfTx'
  BY <1>1 DEF BeginTx
<1>2. ASSUME NEW t \in Txs, CommitTx(t) PROVE RowsOfTx'
  BY <1>2 DEF CommitTx
<1>3. ASSUME NEW t \in Txs, AbortTx(t) PROVE RowsOfTx'
  BY <1>3 DEF AbortTx
<1>4. ASSUME NEW r \in Relays, Commit(r) PROVE RowsOfTx'
  <2>1. \A e \in deleted[r] : row[e] = "visible"
    BY DEF Held
  <2> QED
    BY <1>4, <2>1 DEF Commit
<1>5. ASSUME UNCHANGED <<row, txState>> PROVE RowsOfTx'
  BY <1>5
<1> QED
  BY <1>1, <1>2, <1>3, <1>4, <1>5
  DEF Next, Work, IdlePoll, Start, Stop, LoopEnds, Fetch, ProcessRow, Publish, DeleteRow,
      PublishResent, Rollback, Crash, vars, tableVars

\* A relay that does nothing keeps its batch while others work.
LEMMA HeldElsewhere ==
    ASSUME Held, NEW q \in Relays,
           UNCHANGED <<todo[q], deleted[q]>>, step'[q] = step[q] \/ step'[q] # "idle",
           \A e \in Events : lockedBy'[e] = q <=> lockedBy[e] = q,
           \A e \in Locked(q) : row'[e] = row[e]
    PROVE  /\ Rows(todo'[q]) \cup deleted'[q] = Locked(q)'
           /\ Rows(todo'[q]) \cap deleted'[q] = {}
           /\ NoRepeat(todo'[q])
           /\ \A e \in Locked(q)' : row'[e] = "visible"
           /\ step'[q] = "idle" => todo'[q] = <<>> /\ deleted'[q] = {}
<1>1. Locked(q)' = Locked(q)
  BY DEF Locked
<1> QED
  BY <1>1 DEF Held

LEMMA HeldStep == Typed /\ RowsOfTx /\ Held /\ [Next]_vars => Held'
<1> SUFFICES ASSUME Typed, RowsOfTx, Held, [Next]_vars PROVE Held'
  OBVIOUS
<1> DEFINE HeldBy(q) ==
             /\ Rows(todo[q]) \cup deleted[q] = Locked(q)
             /\ Rows(todo[q]) \cap deleted[q] = {}
             /\ NoRepeat(todo[q])
             /\ \A e \in Locked(q) : row[e] = "visible"
             /\ step[q] = "idle" => todo[q] = <<>> /\ deleted[q] = {}
<1>q. Held' <=> \A q \in Relays : HeldBy(q)'
  BY DEF Held
<1>h. \A q \in Relays : HeldBy(q)
  BY DEF Held
<1>1. ASSUME UNCHANGED <<lockedBy, step, todo, deleted, row>> PROVE Held'
  BY <1>1 DEF Held, Locked
<1>2. ASSUME NEW t \in Txs, CommitTx(t) PROVE Held'
  <2>1. \A e \in Events : row[e] = "visible" => row'[e] = row[e]
    BY <1>2 DEF CommitTx, Typed, TypeOK, RowsOfTx
  <2> SUFFICES ASSUME NEW q \in Relays PROVE HeldBy(q)'
    BY <1>q
  <2>2. \A e \in Locked(q) : row'[e] = row[e]
    BY <2>1 DEF Held, Locked
  <2> QED
    BY <1>2, <2>2, HeldElsewhere DEF CommitTx, relayVars
<1>3. ASSUME NEW r \in Relays, Fetch(r) PROVE Held'
  <2>1. PICK b \in Batches :
           /\ todo' = [todo EXCEPT ![r] = b]
           /\ lockedBy' = [e \in Events |->
                             IF \E i \in DOMAIN b : b[i] = e THEN r ELSE lockedBy[e]]
    BY <1>3 DEF Fetch
  <2>2. /\ b \in Seq(Events) /\ NoRepeat(b) /\ DOMAIN b = 1..Len(b)
        /\ \A e \in Rows(b) : e \in Events /\ row[e] = "visible" /\ lockedBy[e] = NoRelay
    BY BatchRows DEF Typed, Rows, NoRepeat
  <2>3. \A e \in Events : lockedBy'[e] = IF e \in Rows(b) THEN r ELSE lockedBy[e]
    BY <2>1, <2>2 DEF Rows
  <2>4. /\ UNCHANGED <<row, deleted>> /\ step' = [step EXCEPT ![r] = "row"]
        /\ step[r] = "idle"
    BY <1>3 DEF Fetch, tableVars
  <2>5. HeldBy(r)'
    <3>1. Locked(r) = {} /\ deleted[r] = {}
      BY <1>h, <2>4, EmptyBatch
    <3>2. Locked(r)' = Rows(b)
      BY <2>2, <2>3, <3>1 DEF Locked
    <3>3. todo'[r] = b /\ step'[r] = "row" /\ deleted'[r] = {}
      BY <2>1, <2>4, <3>1 DEF Typed, TypeOK
    <3> QED
      BY <2>2, <2>4, <3>2, <3>3
  <2>6. ASSUME NEW q \in Relays \ {r} PROVE HeldBy(q)'
    <3>1. \A e \in Events : lockedBy'[e] = q <=> lockedBy[e] = q
      BY <2>2, <2>3, RelayAssumption
    <3>2. todo'[q] = todo[q] /\ step'[q] = step[q]
      BY <2>1, <2>4 DEF Typed, TypeOK
    <3> QED
      BY <2>4, <3>1, <3>2, HeldElsewhere
  <2> QED
    BY <1>q, <2>5, <2>6
<1>4. ASSUME NEW r \in Relays, ProcessRow(r) \/ DeleteRow(r) PROVE Held'
  <2>1. todo[r] \in Seq(Events) /\ todo[r] # <<>>
    BY <1>4 DEF ProcessRow, DeleteRow, Typed, TypeOK, RowAtHand
  <2> DEFINE e == Head(todo[r])
  <2>2. /\ UNCHANGED <<row, lockedBy>>
        /\ step' = [step EXCEPT ![r] = step'[r]] /\ step'[r] \in {"row", "publish"}
        /\ \/ UNCHANGED <<todo, deleted>>
           \/ /\ todo' = [todo EXCEPT ![r] = Tail(@)]
              /\ deleted' = [deleted EXCEPT ![r] = @ \cup {e}]
    BY <1>4 DEF ProcessRow, DeleteRow, tableVars, Typed, TypeOK
  <2>3. ASSUME NEW q \in Relays \ {r} PROVE HeldBy(q)'
    <3>1. todo'[q] = todo[q] /\ deleted'[q] = deleted[q] /\ step'[q] = step[q]
      BY <2>2 DEF Typed, TypeOK
    <3> QED
      BY <2>2, <3>1, HeldElsewhere
  <2>4. HeldBy(r)'
    <3>1. CASE UNCHANGED <<todo, deleted>>
      BY <2>2, <3>1, HeldElsewhere
    <3>2. CASE /\ todo' = [todo EXCEPT ![r] = Tail(@)]
               /\ deleted' = [deleted EXCEPT ![r] = @ \cup {e}]
      <4>1. todo'[r] = Tail(todo[r]) /\ deleted'[r] = deleted[r] \cup {e}
        BY <3>2 DEF Typed, TypeOK
      <4>2. Locked(r)' = Locked(r)
        BY <2>2 DEF Locked
      <4>3. /\ Rows(todo[r]) = {e} \cup Rows(Tail(todo[r]))
            /\ e \notin Rows(Tail(todo[r])) /\ NoRepeat(Tail(todo[r]))
        BY <2>1, <1>h, HeadAndTail
      <4>4. step'[r] # "idle"
        BY <2>2
      <4> HIDE DEF e
      <4> QED
        BY <1>h, <2>2, <4>1, <4>2, <4>3, <4>4
    <3> QED
      BY <2>2, <3>1, <3>2
  <2> QED
    BY <1>q, <2>3, <2>4
<1>5. ASSUME NEW r \in Relays, Commit(r) \/ Rollback(r) \/ Crash(r) PROVE Held'
  <2>1. /\ lockedBy' = [e \in Events |-> IF lockedBy[e] = r THEN NoRelay ELSE lockedBy[e]]
        /\ step' = [step EXCEPT ![r] = "idle"]
        /\ todo' = [todo EXCEPT ![r] = <<>>]
        /\ deleted' = [deleted EXCEPT ![r] = {}]
    BY <1>5 DEF Commit, Rollback, Crash, EndOfTransaction
  <2>2. \A e \in Events : e \notin deleted[r] => row'[e] = row[e]
    BY <1>5 DEF Commit, Rollback, Crash, tableVars
  <2>3. HeldBy(r)'
    <3>1. Locked(r)' = {}
      BY <2>1, RelayAssumption DEF Locked
    <3>2. todo'[r] = <<>> /\ deleted'[r] = {}
      BY <2>1 DEF Typed, TypeOK
    <3> QED
      BY <3>1, <3>2, EmptyBatch
  <2>4. ASSUME NEW q \in Relays \ {r} PROVE HeldBy(q)'
    <3>1. todo'[q] = todo[q] /\ deleted'[q] = deleted[q] /\ step'[q] = step[q]
      BY <2>1 DEF Typed, TypeOK
    <3>2. \A e \in Events : lockedBy'[e] = q <=> lockedBy[e] = q
      BY <2>1, RelayAssumption
    <3>3. Locked(q) \cap deleted[r] = {}
      BY <1>h DEF Locked
    <3>4. \A e \in Locked(q) : row'[e] = row[e]
      BY <2>2, <3>3 DEF Locked
    <3> QED
      BY <3>1, <3>2, <3>4, HeldElsewhere
  <2> QED
    BY <1>q, <2>3, <2>4
<1> QED
  BY <1>1, <1>2, <1>3, <1>4, <1>5
  DEF Next, Work, IdlePoll, BeginTx, AbortTx, Start, Stop, LoopEnds, Publish, PublishResent,
      vars, tableVars, relayVars

-----------------------------------------------------------------------------
(* Nothing is deleted before it was published.                             *)

\* The batch of another relay has another head and other deleted rows.
LEMMA HeadsDiffer ==
    ASSUME Typed, Held, NEW r \in Relays, NEW q \in Relays \ {r}, todo[r] # <<>>
    PROVE  Head(todo[r]) \notin deleted[q] /\ Head(todo[r]) \notin Rows(todo[q])
<1>1. todo[r] \in Seq(Events)
  BY DEF Typed, TypeOK
<1>2. Head(todo[r]) \in Locked(r)
  BY <1>1, HeadAndTail DEF Held
<1> QED
  BY <1>2 DEF Held, Locked

\* Publications only add up.
LEMMA SentGrows ==
    ASSUME Typed, [Next]_vars
    PROVE  \A e \in Events, x \in Targets : sent'[e][x] >= sent[e][x]
<1> SUFFICES ASSUME NEW e \in Events, NEW x \in Targets PROVE sent'[e][x] >= sent[e][x]
  OBVIOUS
<1>t. sent[e][x] \in Nat
  BY DEF Typed, TypeOK
<1>1. ASSUME NEW r \in Relays, NEW y \in targets[r], NEW n \in {1, 2},
             sent' = [sent EXCEPT ![Head(todo[r])][y] = @ + n],
             step[r] = "publish"
      PROVE  sent'[e][x] >= sent[e][x]
  <2>1. Head(todo[r]) \in Events /\ y \in Targets
    BY <1>1, HeadAndTail DEF Typed, TypeOK, RowAtHand
  <2>2. sent'[e][x] \in {sent[e][x], sent[e][x] + n}
    BY <1>1, <2>1 DEF Typed, TypeOK
  <2> QED
    BY <1>t, <2>2
<1>2. ASSUME UNCHANGED sent PROVE sent'[e][x] >= sent[e][x]
  BY <1>t, <1>2
<1>3. ASSUME NEW r \in Relays, Publish(r) \/ PublishResent(r) PROVE sent'[e][x] >= sent[e][x]
  BY <1>1, <1>3 DEF Publish, PublishResent
<1> QED
  BY <1>2, <1>3
  DEF Next, Work, IdlePoll, BeginTx, CommitTx, AbortTx, Start, Stop, LoopEnds, Fetch,
      ProcessRow, DeleteRow, Commit, Rollback, Crash, vars, historyVars

\* A faction event always has its channel as a target.
LEMMA FactionTarget == \A e \in Events : Kind[e] = "faction" => Channel \in TargetsOf(e)
BY DEF TargetsOf, Targets

LEMMA FactionsPublishedStep ==
    Typed /\ Held /\ FactionsPublished /\ [Next]_vars => FactionsPublished'
<1> SUFFICES ASSUME Typed, Held, FactionsPublished, [Next]_vars PROVE FactionsPublished'
  OBVIOUS
<1> DEFINE GoneOut(q) ==
             /\ \A e \in deleted[q] : Kind[e] = "faction" => sent[e][Channel] > 0
             /\ step[q] = "publish" /\ Kind[Head(todo[q])] = "faction" =>
                  Channel \in targets[q] \/ sent[Head(todo[q])][Channel] > 0
<1>q. FactionsPublished' <=> \A q \in Relays : GoneOut(q)'
  BY DEF FactionsPublished
<1>h. \A q \in Relays : GoneOut(q)
  BY DEF FactionsPublished
<1>s. ASSUME NEW e \in Events, sent[e][Channel] > 0 PROVE sent'[e][Channel] > 0
  <2>1. Channel \in Targets
    BY DEF Targets
  <2>2. sent[e][Channel] \in Nat /\ sent'[e][Channel] \in Nat
    BY <2>1 DEF Typed, TypeOK
  <2> QED
    BY <1>s, <2>1, <2>2, SentGrows
<1>k. ASSUME NEW q \in Relays, UNCHANGED <<deleted[q], todo[q], targets[q]>>,
             step'[q] = step[q] \/ step'[q] # "publish"
      PROVE  GoneOut(q)'
  <2>1. deleted[q] \subseteq Events
    BY DEF Typed, TypeOK
  <2>2. step'[q] = "publish" => Head(todo[q]) \in Events
    BY <1>k, HeadAndTail DEF Typed, TypeOK, RowAtHand
  <2> QED
    BY <1>h, <1>k, <1>s, <2>1, <2>2
<1>1. ASSUME UNCHANGED <<deleted, todo, targets, step>> PROVE FactionsPublished'
  BY <1>1, <1>k, <1>q
<1>2. ASSUME NEW r \in Relays, Fetch(r) PROVE FactionsPublished'
  <2>1. GoneOut(r)'
    <3>1. step'[r] = "row" /\ deleted'[r] = deleted[r]
      BY <1>2 DEF Fetch, Typed, TypeOK
    <3>2. deleted[r] \subseteq Events
      BY DEF Typed, TypeOK
    <3> QED
      BY <1>h, <1>s, <3>1, <3>2
  <2>2. ASSUME NEW q \in Relays \ {r} PROVE GoneOut(q)'
    <3>1. UNCHANGED <<deleted[q], todo[q], targets[q], step[q]>>
      BY <1>2 DEF Fetch, Typed, TypeOK
    <3> QED
      BY <1>k, <3>1
  <2> QED
    BY <1>q, <2>1, <2>2
<1>3. ASSUME NEW r \in Relays, ProcessRow(r) PROVE FactionsPublished'
  <2>1. todo[r] \in Seq(Events) /\ todo[r] # <<>> /\ Head(todo[r]) \in Events
    BY <1>3, HeadAndTail DEF ProcessRow, Typed, TypeOK
  <2> DEFINE e == Head(todo[r])
  <2>2. GoneOut(r)'
    <3>1. CASE TargetsOf(e) = {}
      <4>1. deleted'[r] = deleted[r] \cup {e} /\ step'[r] = "row"
        BY <1>3, <3>1 DEF ProcessRow, Typed, TypeOK
      <4>2. Kind[e] # "faction"
        BY <2>1, <3>1, FactionTarget
      <4>3. deleted[r] \subseteq Events
        BY DEF Typed, TypeOK
      <4> HIDE DEF e
      <4> QED
        BY <1>h, <1>s, <4>1, <4>2, <4>3
    <3>2. CASE TargetsOf(e) # {}
      <4>1. /\ targets'[r] = TargetsOf(e) /\ deleted'[r] = deleted[r] /\ todo'[r] = todo[r]
        BY <1>3, <3>2 DEF ProcessRow, Typed, TypeOK
      <4>2. deleted[r] \subseteq Events
        BY DEF Typed, TypeOK
      <4> QED
        BY <1>h, <1>s, <2>1, <4>1, <4>2, FactionTarget
    <3> QED
      BY <3>1, <3>2
  <2>3. ASSUME NEW q \in Relays \ {r} PROVE GoneOut(q)'
    <3>1. UNCHANGED <<deleted[q], todo[q], targets[q], step[q]>>
      BY <1>3 DEF ProcessRow, Typed, TypeOK
    <3> QED
      BY <1>k, <3>1
  <2> QED
    BY <1>q, <2>2, <2>3
<1>4. ASSUME NEW r \in Relays, Publish(r) \/ PublishResent(r) PROVE FactionsPublished'
  <2>1. PICK x \in targets[r], n \in {1, 2} :
           /\ sent' = [sent EXCEPT ![Head(todo[r])][x] = @ + n]
           /\ targets' = [targets EXCEPT ![r] = @ \ {x}]
    BY <1>4 DEF Publish, PublishResent
  <2>2. UNCHANGED <<deleted, todo, step>> /\ step[r] = "publish"
    BY <1>4 DEF Publish, PublishResent
  <2>3. Head(todo[r]) \in Events /\ x \in Targets
    BY <2>1, <2>2, HeadAndTail DEF Typed, TypeOK, RowAtHand
  <2> DEFINE e == Head(todo[r])
  <2>4. sent'[e][x] > 0
    <3>1. sent'[e][x] = sent[e][x] + n /\ sent[e][x] \in Nat
      BY <2>1, <2>3 DEF Typed, TypeOK
    <3> QED
      BY <3>1
  <2>5. targets'[r] = targets[r] \ {x}
    BY <2>1 DEF Typed, TypeOK
  <2>6. deleted[r] \subseteq Events
    BY DEF Typed, TypeOK
  <2>7. GoneOut(r)'
    <3>1. \A f \in deleted'[r] : Kind[f] = "faction" => sent'[f][Channel] > 0
      BY <1>h, <1>s, <2>2, <2>6
    <3>2. Kind[e] = "faction" => Channel \in targets'[r] \/ sent'[e][Channel] > 0
      BY <1>h, <1>s, <2>2, <2>3, <2>4, <2>5
    <3> QED
      BY <2>2, <3>1, <3>2
  <2>8. ASSUME NEW q \in Relays \ {r} PROVE GoneOut(q)'
    <3>1. UNCHANGED <<deleted[q], todo[q], targets[q], step[q]>>
      BY <2>1, <2>2 DEF Typed, TypeOK
    <3> QED
      BY <1>k, <3>1
  <2> QED
    BY <1>q, <2>7, <2>8
<1>5. ASSUME NEW r \in Relays, DeleteRow(r) PROVE FactionsPublished'
  <2>1. todo[r] # <<>> /\ Head(todo[r]) \in Events
    BY <1>5, HeadAndTail DEF DeleteRow, Typed, TypeOK, RowAtHand
  <2> DEFINE e == Head(todo[r])
  <2>2. /\ deleted'[r] = deleted[r] \cup {e} /\ step'[r] = "row"
        /\ step[r] = "publish" /\ targets[r] = {}
    BY <1>5 DEF DeleteRow, Typed, TypeOK
  <2>3. Kind[e] = "faction" => sent[e][Channel] > 0
    BY <1>h, <2>2
  <2>4. deleted[r] \subseteq Events
    BY DEF Typed, TypeOK
  <2>5. GoneOut(r)'
    <3> HIDE DEF e
    <3>1. e \in Events
      BY <2>1 DEF e
    <3> QED
      BY <1>h, <1>s, <2>2, <2>3, <2>4, <3>1
  <2>6. ASSUME NEW q \in Relays \ {r} PROVE GoneOut(q)'
    <3>1. UNCHANGED <<deleted[q], todo[q], targets[q], step[q]>>
      BY <1>5 DEF DeleteRow, Typed, TypeOK
    <3> QED
      BY <1>k, <3>1
  <2> QED
    BY <1>q, <2>5, <2>6
<1>6. ASSUME NEW r \in Relays, EndOfTransaction(r) PROVE FactionsPublished'
  <2>1. deleted'[r] = {} /\ step'[r] = "idle"
    BY <1>6 DEF EndOfTransaction, Typed, TypeOK
  <2>2. GoneOut(r)'
    BY <2>1
  <2>3. ASSUME NEW q \in Relays \ {r} PROVE GoneOut(q)'
    <3>1. UNCHANGED <<deleted[q], todo[q], targets[q], step[q]>>
      BY <1>6 DEF EndOfTransaction, Typed, TypeOK
    <3> QED
      BY <1>k, <3>1
  <2> QED
    BY <1>q, <2>2, <2>3
<1> QED
  BY <1>1, <1>2, <1>3, <1>4, <1>5, <1>6
  DEF Next, Work, IdlePoll, BeginTx, CommitTx, AbortTx, Start, Stop, LoopEnds, Commit, Rollback,
      Crash, vars, relayVars

\* The inductive invariant of the relays: rows and transactions agree, a row is
\* in the hands of one relay at most, and a deleted faction event is published.
RelayInv == TypeOK /\ RowAtHand /\ RowsOfTx /\ Held /\ FactionsPublished

THEOREM RelayInvariant == Spec => []RelayInv
<1>1. Init => RelayInv
  BY TypeInit, RelayInit DEF RelayInv
<1>2. RelayInv /\ [Next]_vars => RelayInv'
  BY TypeStep, RowsOfTxStep, HeldStep, FactionsPublishedStep DEF RelayInv, Typed
<1> QED
  BY <1>1, <1>2, PTL DEF Spec

-----------------------------------------------------------------------------
(* The relay implements the outbox.                                        *)

\* The state of a row as the promise names it.
StoreName(x) ==
    CASE x = "absent" -> "absent" [] x = "visible" -> "stored" [] x = "deleted" -> "gone"

LEMMA StoreNames ==
    /\ StoreName("absent") = "absent"
    /\ StoreName("visible") = "stored"
    /\ StoreName("deleted") = "gone"
BY DEF StoreName

LEMMA StoreAt == StoreOf = [e \in Events |-> StoreName(row[e])]
BY DEF StoreOf, StoreName

LEMMA StoreAtNext == StoreOf' = [e \in Events |-> StoreName(row'[e])]
BY DEF StoreOf, StoreName

LEMMA PromiseInit == Init => Promise!Init
<1> SUFFICES ASSUME Init PROVE Promise!Init
  OBVIOUS
<1>1. StoreOf = [e \in Events |-> "absent"]
  BY DEF Init, StoreOf
<1>2. DeliveredOf = [e \in Events |-> {}]
  BY DEF Init, DeliveredOf
<1> QED
  BY <1>1, <1>2 DEF Promise!Init

\* Every step stores the rows of a transaction, delivers one event to one
\* channel, retires published rows, or is not seen by the promise.
LEMMA PromiseStep ==
    RelayInv /\ RelayInv' /\ [Next]_vars
        => [Promise!Next]_<<StoreOf, DeliveredOf>>
<1> SUFFICES ASSUME RelayInv, RelayInv', [Next]_vars
             PROVE  [Promise!Next]_<<StoreOf, DeliveredOf>>
  OBVIOUS
<1>0. UNCHANGED row => UNCHANGED StoreOf
  BY DEF StoreOf
<1>d. UNCHANGED sent => UNCHANGED DeliveredOf
  BY DEF DeliveredOf
<1>1. ASSUME NEW t \in Txs, CommitTx(t) PROVE Promise!Next
  <2> DEFINE S == {e \in Events : TxOf[e] = t}
  <2>1. \A e \in S : row[e] = "absent"
    BY <1>1, RelayAssumption DEF CommitTx, RelayInv, RowsOfTx
  <2>2. row' = [e \in Events |-> IF e \in S THEN "visible" ELSE row[e]]
    BY <1>1 DEF CommitTx
  <2>3. Promise!Store(S)
    <3>1. \A e \in S : StoreOf[e] = "absent"
      BY <2>1 DEF StoreOf
    <3>2. StoreOf' = [e \in Events |-> IF e \in S THEN "stored" ELSE StoreOf[e]]
      <4>1. ASSUME NEW e \in Events
            PROVE  StoreOf'[e] = IF e \in S THEN "stored" ELSE StoreOf[e]
        <5>1. row'[e] = IF e \in S THEN "visible" ELSE row[e]
          BY <2>2
        <5> HIDE DEF S
        <5> QED
          BY <5>1, StoreNames, StoreAt, StoreAtNext
      <4> QED
        BY <4>1, StoreAtNext
    <3>3. UNCHANGED DeliveredOf
      BY <1>1, <1>d DEF CommitTx, historyVars
    <3> QED
      BY <3>1, <3>2, <3>3 DEF Promise!Store
  <2>4. S \in SUBSET Events
    OBVIOUS
  <2> HIDE DEF S
  <2> QED
    BY <2>3, <2>4 DEF Promise!Next
<1>2. ASSUME NEW r \in Relays, Publish(r) \/ PublishResent(r) PROVE Promise!Next
  <2>1. PICK x \in targets[r], n \in {1, 2} :
           sent' = [sent EXCEPT ![Head(todo[r])][x] = @ + n]
    BY <1>2 DEF Publish, PublishResent
  <2>2. step[r] = "publish" /\ UNCHANGED row
    BY <1>2 DEF Publish, PublishResent, tableVars
  <2>e. PICK e : e = Head(todo[r])
    OBVIOUS
  <2>3. e \in Events /\ x \in Targets /\ row[e] = "visible"
    <3>1. todo[r] \in Seq(Events) /\ todo[r] # <<>> /\ x \in Targets
      BY <2>1, <2>2 DEF RelayInv, TypeOK, RowAtHand
    <3>2. e \in Locked(r)
      BY <2>e, <3>1, HeadAndTail DEF RelayInv, Held
    <3> QED
      BY <3>1, <3>2 DEF RelayInv, Held, Locked
  <2>4. DeliveredOf' = [DeliveredOf EXCEPT ![e] = @ \cup {x}]
    <3>1. \A f \in Events, y \in Targets : sent[f][y] \in Nat
      BY DEF RelayInv, TypeOK
    <3>2. sent'[e][x] > 0
      BY <2>e, <2>1, <2>3, <3>1 DEF RelayInv, TypeOK
    <3>3. \A f \in Events, y \in Targets : f # e \/ y # x => sent'[f][y] = sent[f][y]
      BY <2>e, <2>1, <2>3 DEF RelayInv, TypeOK
    <3>4. \A f \in Events : f # e => DeliveredOf'[f] = DeliveredOf[f]
      BY <3>3 DEF DeliveredOf
    <3>5. DeliveredOf'[e] = DeliveredOf[e] \cup {x}
      BY <2>3, <3>2, <3>3 DEF DeliveredOf
    <3>6. /\ DeliveredOf = [f \in Events |-> DeliveredOf[f]]
          /\ DeliveredOf' = [f \in Events |-> DeliveredOf'[f]]
      BY DEF DeliveredOf
    <3> QED
      BY <3>4, <3>5, <3>6
  <2>5. StoreOf[e] = "stored"
    BY <2>3 DEF StoreOf
  <2>6. Promise!Deliver(e, x)
    BY <1>0, <2>2, <2>4, <2>5 DEF Promise!Deliver
  <2> QED
    BY <2>3, <2>6 DEF Promise!Next
<1>3. ASSUME NEW r \in Relays, Commit(r) PROVE Promise!Next
  <2>s. PICK S : S = deleted[r]
    OBVIOUS
  <2>1. S \in SUBSET Events /\ \A e \in S : row[e] = "visible"
    BY <2>s DEF RelayInv, TypeOK, Held
  <2>2. row' = [e \in Events |-> IF e \in S THEN "deleted" ELSE row[e]]
    BY <1>3, <2>s DEF Commit
  <2>3. \A e \in S : Kind[e] = "faction" => DeliveredOf[e] # {}
    BY <2>s, <2>1 DEF RelayInv, FactionsPublished, DeliveredOf, Targets
  <2>4. Promise!Retire(S)
    <3>1. \A e \in S : StoreOf[e] = "stored"
      BY <2>1 DEF StoreOf
    <3>2. StoreOf' = [e \in Events |-> IF e \in S THEN "gone" ELSE StoreOf[e]]
      <4>1. ASSUME NEW e \in Events
            PROVE  StoreOf'[e] = IF e \in S THEN "gone" ELSE StoreOf[e]
        <5>1. row'[e] = IF e \in S THEN "deleted" ELSE row[e]
          BY <2>2
        <5> QED
          BY <5>1, StoreNames, StoreAt, StoreAtNext
      <4> QED
        BY <4>1, StoreAtNext
    <3>3. UNCHANGED DeliveredOf
      BY <1>3, <1>d DEF Commit, historyVars
    <3> QED
      BY <2>3, <3>1, <3>2, <3>3 DEF Promise!Retire, FactionEvents
  <2> QED
    BY <2>1, <2>4 DEF Promise!Next
<1>4. ASSUME UNCHANGED <<row, sent>> PROVE UNCHANGED <<StoreOf, DeliveredOf>>
  BY <1>4, <1>0, <1>d
<1> QED
  BY <1>1, <1>2, <1>3, <1>4
  DEF Next, Work, IdlePoll, BeginTx, AbortTx, Start, Stop, LoopEnds, Fetch, ProcessRow,
      DeleteRow, Rollback, Crash, vars, tableVars, historyVars

\* Through any rollback, crash, resent command or overlap of two API processes
\* the relay implements the outbox: an event leaves the table only when it was
\* published, and is published only while it is in the table.
THEOREM RelayImplementsPromise == Spec => ImplementsPromise
<1>1. Spec => [][Promise!Next]_<<StoreOf, DeliveredOf>>
  BY RelayInvariant, PromiseStep, PTL DEF Spec
<1> QED
  BY <1>1, PromiseInit, PTL DEF Spec, ImplementsPromise, Promise!Spec

-----------------------------------------------------------------------------
(* How often an event is published.                                        *)

\* The event still has to be published to the channel: it is not deleted, by an
\* open transaction neither, nor at hand with that channel behind it.
Outstanding(e, x) ==
    /\ row[e] # "deleted"
    /\ \A r \in Relays :
          /\ e \notin deleted[r]
          /\ ~(step[r] = "publish" /\ Head(todo[r]) = e /\ x \notin targets[r])

\* Every publication but one was paid for by a fault; an outstanding one not yet.
PublicationsPaid ==
    \A e \in Events, x \in Targets :
        /\ sent[e][x] <= 1 + faults
        /\ Outstanding(e, x) => sent[e][x] <= faults

\* Publishing puts the channel behind the event, which was outstanding.
LEMMA PublishPaid ==
    ASSUME Typed, Held, PublicationsPaid, NEW r \in Relays, NEW y \in targets[r], NEW n \in {1, 2},
           step[r] = "publish",
           sent' = [sent EXCEPT ![Head(todo[r])][y] = @ + n],
           targets' = [targets EXCEPT ![r] = @ \ {y}],
           UNCHANGED <<row, deleted, step, todo>>,
           faults' = faults + (n - 1)
    PROVE  PublicationsPaid'
<1>1. PICK h : h = Head(todo[r])
  OBVIOUS
<1>2. h \in Events /\ y \in Targets /\ todo[r] # <<>> /\ todo[r] \in Seq(Events)
  BY <1>1, HeadAndTail DEF Typed, TypeOK, RowAtHand
<1>3. Outstanding(h, y)
  <2>1. h \in Rows(todo[r]) /\ h \in Locked(r)
    BY <1>1, <1>2, HeadAndTail DEF Held
  <2>2. row[h] # "deleted" /\ h \notin deleted[r]
    BY <2>1 DEF Held
  <2>3. ASSUME NEW q \in Relays \ {r} PROVE h \notin deleted[q] /\ h \notin Rows(todo[q])
    BY <1>1, <1>2, <2>3, HeadsDiffer
  <2>4. ASSUME NEW q \in Relays \ {r}, step[q] = "publish" PROVE Head(todo[q]) # h
    <3>1. todo[q] \in Seq(Events) /\ todo[q] # <<>>
      BY <2>4 DEF Typed, TypeOK, RowAtHand
    <3> QED
      BY <3>1, <2>3, HeadAndTail
  <2> QED
    BY <2>2, <2>3, <2>4 DEF Outstanding
<1>4. targets'[r] = targets[r] \ {y} /\ \A q \in Relays \ {r} : targets'[q] = targets[q]
  BY DEF Typed, TypeOK
<1> SUFFICES ASSUME NEW e \in Events, NEW x \in Targets
             PROVE  sent'[e][x] <= 1 + faults' /\ (Outstanding(e, x)' => sent'[e][x] <= faults')
  BY DEF PublicationsPaid
<1>5. sent[e][x] \in Nat /\ faults \in Nat
  BY DEF Typed, TypeOK
<1>6. /\ sent[e][x] <= 1 + faults
      /\ Outstanding(e, x) => sent[e][x] <= faults
  BY DEF PublicationsPaid
<1>7. CASE e = h /\ x = y
  <2>1. ~Outstanding(e, x)'
    BY <1>1, <1>4, <1>7 DEF Outstanding
  <2>2. sent'[e][x] = sent[e][x] + n
    BY <1>1, <1>2, <1>7 DEF Typed, TypeOK
  <2> QED
    BY <1>3, <1>5, <1>6, <1>7, <2>1, <2>2
<1>8. CASE e # h \/ x # y
  <2>1. Outstanding(e, x)' => Outstanding(e, x)
    BY <1>1, <1>4, <1>8 DEF Outstanding
  <2>2. sent'[e][x] = sent[e][x]
    BY <1>1, <1>2, <1>8 DEF Typed, TypeOK
  <2> QED
    BY <1>5, <1>6, <2>1, <2>2
<1> QED
  BY <1>7, <1>8

LEMMA PaidInit == Init => PublicationsPaid
<1> SUFFICES ASSUME Init, NEW e \in Events, NEW x \in Targets
             PROVE  sent[e][x] <= 1 + faults /\ sent[e][x] <= faults
  BY DEF PublicationsPaid
<1> QED
  BY DEF Init

LEMMA PaidStep == Typed /\ RowsOfTx /\ Held /\ PublicationsPaid /\ [Next]_vars => PublicationsPaid'
<1> SUFFICES ASSUME Typed, RowsOfTx, Held, PublicationsPaid, [Next]_vars PROVE PublicationsPaid'
  OBVIOUS
<1>n. ASSUME NEW e \in Events, NEW x \in Targets PROVE sent[e][x] \in Nat /\ faults \in Nat
  BY DEF Typed, TypeOK
<1>u. ASSUME UNCHANGED sent, faults' \in {faults, faults + 1},
             \A e \in Events, x \in Targets : Outstanding(e, x)' => Outstanding(e, x)
      PROVE  PublicationsPaid'
  BY <1>n, <1>u DEF PublicationsPaid
<1>f. ASSUME UNCHANGED sent, faults' = faults + 1 PROVE PublicationsPaid'
  BY <1>n, <1>f DEF PublicationsPaid
<1>1. ASSUME UNCHANGED <<row, deleted, step, todo, targets, sent>>, faults' \in {faults, faults + 1}
      PROVE  PublicationsPaid'
  BY <1>1, <1>u DEF Outstanding
<1>2. ASSUME NEW t \in Txs, CommitTx(t) PROVE PublicationsPaid'
  <2>1. \A e \in Events : row[e] = "deleted" => row'[e] = "deleted"
    BY <1>2, RelayAssumption DEF CommitTx, RowsOfTx
  <2> QED
    BY <1>2, <1>u, <2>1 DEF CommitTx, relayVars, historyVars, Outstanding
<1>3. ASSUME NEW r \in Relays, Fetch(r) PROVE PublicationsPaid'
  <2>1. /\ step' = [step EXCEPT ![r] = "row"] /\ step[r] = "idle"
        /\ UNCHANGED <<row, targets, deleted, sent, faults>>
    BY <1>3 DEF Fetch, tableVars
  <2>2. \A q \in Relays : step'[q] = "publish" => q # r
    BY <2>1 DEF Typed, TypeOK
  <2>3. \A q \in Relays \ {r} : step'[q] = step[q] /\ todo'[q] = todo[q]
    BY <1>3 DEF Fetch, Typed, TypeOK
  <2>4. \A e \in Events, x \in Targets : Outstanding(e, x)' => Outstanding(e, x)
    BY <2>1, <2>2, <2>3 DEF Outstanding
  <2> QED
    BY <1>u, <2>1, <2>4
<1>4. ASSUME NEW r \in Relays, ProcessRow(r) PROVE PublicationsPaid'
  <2>1. step[r] = "row" /\ UNCHANGED <<row, sent, faults>>
    BY <1>4 DEF ProcessRow, tableVars
  <2>2. \A q \in Relays \ {r} : UNCHANGED <<step[q], todo[q], targets[q], deleted[q]>>
    BY <1>4 DEF ProcessRow, Typed, TypeOK
  <2>3. deleted[r] \subseteq deleted'[r]
    BY <1>4 DEF ProcessRow, Typed, TypeOK
  <2>4. \A e \in Events, x \in Targets : Outstanding(e, x)' => Outstanding(e, x)
    BY <2>1, <2>2, <2>3 DEF Outstanding
  <2> QED
    BY <1>u, <2>1, <2>4
<1>5. ASSUME NEW r \in Relays, DeleteRow(r) PROVE PublicationsPaid'
  <2>1. UNCHANGED <<row, sent, faults>>
    BY <1>5 DEF DeleteRow, tableVars
  <2>2. \A q \in Relays \ {r} : UNCHANGED <<step[q], todo[q], targets[q], deleted[q]>>
    BY <1>5 DEF DeleteRow, Typed, TypeOK
  <2>3. deleted'[r] = deleted[r] \cup {Head(todo[r])}
    BY <1>5 DEF DeleteRow, Typed, TypeOK
  <2>4. \A e \in Events, x \in Targets : Outstanding(e, x)' => Outstanding(e, x)
    BY <2>1, <2>2, <2>3 DEF Outstanding
  <2> QED
    BY <1>u, <2>1, <2>4
<1>6. ASSUME NEW r \in Relays, Commit(r) PROVE PublicationsPaid'
  <2>1. step[r] = "row" /\ UNCHANGED <<sent, faults>>
    BY <1>6 DEF Commit, historyVars
  <2>2. \A q \in Relays \ {r} : UNCHANGED <<step[q], todo[q], targets[q], deleted[q]>>
    BY <1>6 DEF Commit, EndOfTransaction, Typed, TypeOK
  <2>3. \A e \in Events : row'[e] = IF e \in deleted[r] THEN "deleted" ELSE row[e]
    BY <1>6 DEF Commit
  <2>4. \A e \in Events, x \in Targets : Outstanding(e, x)' => Outstanding(e, x)
    BY <2>1, <2>2, <2>3 DEF Outstanding
  <2> QED
    BY <1>u, <2>1, <2>4
<1>7. ASSUME NEW r \in Relays, Rollback(r) \/ Crash(r) PROVE PublicationsPaid'
  BY <1>7, <1>f DEF Rollback, Crash
<1>8. ASSUME NEW r \in Relays, Publish(r) PROVE PublicationsPaid'
  <2>1. PICK y \in targets[r] :
           /\ sent' = [sent EXCEPT ![Head(todo[r])][y] = @ + 1]
           /\ targets' = [targets EXCEPT ![r] = @ \ {y}]
    BY <1>8 DEF Publish
  <2>2. step[r] = "publish" /\ UNCHANGED <<row, deleted, step, todo, faults>>
    BY <1>8 DEF Publish, tableVars
  <2>3. faults' = faults + (1 - 1)
    BY <2>2 DEF Typed, TypeOK
  <2> QED
    BY <2>1, <2>2, <2>3, PublishPaid
<1>9. ASSUME NEW r \in Relays, PublishResent(r) PROVE PublicationsPaid'
  <2>1. PICK y \in targets[r] :
           /\ sent' = [sent EXCEPT ![Head(todo[r])][y] = @ + 2]
           /\ targets' = [targets EXCEPT ![r] = @ \ {y}]
    BY <1>9 DEF PublishResent
  <2>2. step[r] = "publish" /\ UNCHANGED <<row, deleted, step, todo>>
    BY <1>9 DEF PublishResent, tableVars
  <2>3. faults' = faults + (2 - 1)
    BY <1>9 DEF PublishResent, Typed, TypeOK
  <2> QED
    BY <2>1, <2>2, <2>3, PublishPaid
<1> QED
  BY <1>1, <1>2, <1>3, <1>4, <1>5, <1>6, <1>7, <1>8, <1>9
  DEF Next, Work, IdlePoll, BeginTx, AbortTx, Start, Stop, LoopEnds, vars, tableVars, relayVars,
      historyVars

\* Two relays never publish the same row in two transactions that both succeed:
\* for any number of relays and any batches, a channel gets an event at most
\* once more per failed transaction, crash or resent command.
THEOREM DuplicatesOnlyFromFaultsAlways == Spec => []DuplicatesOnlyFromFaults
<1>1. RelayInv /\ TypeOK' /\ PublicationsPaid /\ [Next]_vars => PublicationsPaid'
  BY PaidStep DEF RelayInv, Typed
<1>2. PublicationsPaid => DuplicatesOnlyFromFaults
  BY DEF PublicationsPaid, DuplicatesOnlyFromFaults
<1> QED
  BY <1>1, <1>2, PaidInit, RelayInvariant, TypeCorrect, PTL DEF Spec

-----------------------------------------------------------------------------
(* Causally ordered events.                                                *)

\* What was committed before a transaction has rows.
CausesExist == \A t \in Txs, f \in Events : f \in before[t] => row[f] # "absent"

\* Only settled rows are deleted, and only rows that exist are published.
DeletedAreSettled ==
    /\ \A e \in Events : row[e] = "deleted" => e \in settled
    /\ \A r \in Relays : deleted[r] \subseteq settled
    /\ \A e \in Events, x \in Targets : sent[e][x] > 0 => row[e] # "absent"

\* A batch has the causes of its rows before them, unless they are settled.
CausesFirst ==
    ~overlapped =>
        \A r \in Relays : \A i \in 1..Len(todo[r]), f \in Events :
            f \in Causes(TxOf[todo[r][i]]) =>
                f \in settled \/ \E j \in 1..Len(todo[r]) : j < i /\ todo[r][j] = f

LEMMA CausalInit ==
    Init => CausesExist /\ DeletedAreSettled /\ CausesFirst /\ CausalOrder
<1> SUFFICES ASSUME Init
             PROVE  CausesExist /\ DeletedAreSettled /\ CausesFirst /\ CausalOrder
  OBVIOUS
<1>1. CausesExist
  BY DEF Init, CausesExist
<1>2. DeletedAreSettled
  BY DEF Init, DeletedAreSettled
<1>3. CausesFirst
  <2>1. \A r \in Relays : Len(todo[r]) = 0
    BY DEF Init
  <2> QED
    BY <2>1 DEF CausesFirst
<1>4. CausalOrder
  BY RelayAssumption DEF Init, CausalOrder
<1> QED
  BY <1>1, <1>2, <1>3, <1>4

LEMMA ExistStep == Typed /\ CausesExist /\ [Next]_vars => CausesExist'
<1> SUFFICES ASSUME Typed, CausesExist, [Next]_vars PROVE CausesExist'
  OBVIOUS
<1> USE RelayAssumption
<1>1. ASSUME UNCHANGED before, \A e \in Events : row[e] # "absent" => row'[e] # "absent"
      PROVE  CausesExist'
  BY <1>1 DEF CausesExist
<1>2. ASSUME NEW t \in Txs, CommitTx(t) PROVE CausesExist'
  <2>1. /\ before' = [before EXCEPT ![t] = Committed]
        /\ \A e \in Events : row[e] # "absent" => row'[e] # "absent"
    BY <1>2 DEF CommitTx
  <2>2. \A u \in Txs, f \in Events : f \in before'[u] => f \in before[u] \/ f \in Committed
    BY <2>1 DEF Typed, TypeOK
  <2> QED
    BY <2>1, <2>2 DEF CausesExist, Committed
<1>3. ASSUME NEW r \in Relays, Commit(r) PROVE CausesExist'
  <2>1. \A e \in Events : row[e] # "absent" => row'[e] # "absent"
    BY <1>3 DEF Commit
  <2> QED
    BY <1>1, <1>3, <2>1 DEF Commit, historyVars
<1>4. ASSUME UNCHANGED <<before, row>> PROVE CausesExist'
  BY <1>1, <1>4
<1> QED
  BY <1>2, <1>3, <1>4
  DEF Next, Work, IdlePoll, BeginTx, AbortTx, Start, Stop, LoopEnds, Fetch, ProcessRow, Publish,
      DeleteRow, PublishResent, Rollback, Crash, vars, tableVars, historyVars

\* The causes of a row that is there are fixed: neither its transaction nor one
\* of theirs begins or commits again.
LEMMA CausesKept ==
    ASSUME Typed, RowsOfTx, CausesExist, [Next]_vars, NEW e \in Events, row[e] # "absent"
    PROVE  Causes(TxOf[e])' = Causes(TxOf[e])
<1> DEFINE u == TxOf[e]
<1> USE RelayAssumption
<1>1. u \in Txs /\ TxOf' = TxOf
  OBVIOUS
<1>2. ASSUME before'[u] = before[u], createdAt'[u] = createdAt[u],
             \A f \in before[u] : CreatedAt(f)' = CreatedAt(f)
      PROVE  Causes(u)' = Causes(u)
  BY <1>2 DEF Causes
<1>3. ASSUME NEW t \in Txs, BeginTx(t) PROVE Causes(u)' = Causes(u)
  <2>1. txState[t] = "idle" /\ UNCHANGED before /\ createdAt' = [createdAt EXCEPT ![t] = now]
    BY <1>3 DEF BeginTx, historyVars
  <2>2. \A f \in Events : row[f] # "absent" => TxOf[f] # t
    BY <2>1 DEF RowsOfTx
  <2>3. \A f \in Events : row[f] # "absent" => createdAt'[TxOf[f]] = createdAt[TxOf[f]]
    BY <2>1, <2>2 DEF Typed, TypeOK
  <2>4. \A f \in before[u] : f \in Events /\ row[f] # "absent"
    BY <1>1 DEF Typed, TypeOK, CausesExist
  <2> QED
    BY <1>2, <2>1, <2>3, <2>4 DEF CreatedAt
<1>4. ASSUME NEW t \in Txs, CommitTx(t) PROVE Causes(u)' = Causes(u)
  <2>1. txState[t] = "open" /\ UNCHANGED createdAt /\ before' = [before EXCEPT ![t] = Committed]
    BY <1>4 DEF CommitTx
  <2>2. u # t
    BY <2>1 DEF RowsOfTx
  <2>3. before'[u] = before[u]
    BY <1>1, <2>1, <2>2 DEF Typed, TypeOK
  <2> QED
    BY <1>2, <2>1, <2>3 DEF CreatedAt
<1>5. ASSUME UNCHANGED <<before, createdAt>> PROVE Causes(u)' = Causes(u)
  BY <1>2, <1>5 DEF CreatedAt
<1> QED
  BY <1>3, <1>4, <1>5
  DEF Next, Work, IdlePoll, AbortTx, Start, Stop, LoopEnds, Fetch, ProcessRow, Publish,
      DeleteRow, PublishResent, Commit, Rollback, Crash, vars, tableVars, historyVars

LEMMA SettledStep ==
    Typed /\ RowsOfTx /\ Held /\ DeletedAreSettled /\ [Next]_vars
        => DeletedAreSettled' /\ settled \subseteq settled'
<1> SUFFICES ASSUME Typed, RowsOfTx, Held, DeletedAreSettled, [Next]_vars
             PROVE  DeletedAreSettled' /\ settled \subseteq settled'
  OBVIOUS
<1> USE RelayAssumption
<1>1. ASSUME UNCHANGED <<row, deleted, sent, settled>>
      PROVE  DeletedAreSettled' /\ settled \subseteq settled'
  BY <1>1 DEF DeletedAreSettled
<1>2. ASSUME NEW t \in Txs, CommitTx(t) PROVE DeletedAreSettled' /\ settled \subseteq settled'
  <2>1. /\ \A e \in Events : row'[e] = "deleted" => row[e] = "deleted"
        /\ \A e \in Events : row'[e] = "absent" => row[e] = "absent"
        /\ UNCHANGED <<deleted, sent, settled>>
    BY <1>2 DEF CommitTx, relayVars, historyVars
  <2> QED
    BY <2>1 DEF DeletedAreSettled
<1>3. ASSUME NEW r \in Relays, ProcessRow(r) \/ DeleteRow(r)
      PROVE  DeletedAreSettled' /\ settled \subseteq settled'
  <2>1. PICK h : h = Head(todo[r])
    OBVIOUS
  <2>2. /\ UNCHANGED <<row, sent>>
        /\ \/ UNCHANGED <<deleted, settled>>
           \/ /\ deleted' = [deleted EXCEPT ![r] = @ \cup {h}]
              /\ settled' = settled \cup {h}
    BY <1>3, <2>1 DEF ProcessRow, DeleteRow, tableVars
  <2>3. \A q \in Relays : deleted[q] \subseteq settled
    BY DEF DeletedAreSettled
  <2>4. \A q \in Relays : deleted'[q] \subseteq settled'
    <3>1. CASE UNCHANGED <<deleted, settled>>
      BY <2>3, <3>1
    <3>2. CASE /\ deleted' = [deleted EXCEPT ![r] = @ \cup {h}]
               /\ settled' = settled \cup {h}
      <4>1. \A q \in Relays : deleted'[q] = IF q = r THEN deleted[q] \cup {h} ELSE deleted[q]
        BY <3>2 DEF Typed, TypeOK
      <4> QED
        BY <2>3, <3>2, <4>1
    <3> QED
      BY <2>2, <3>1, <3>2
  <2> QED
    BY <2>2, <2>4 DEF DeletedAreSettled
<1>4. ASSUME NEW r \in Relays, Publish(r) \/ PublishResent(r)
      PROVE  DeletedAreSettled' /\ settled \subseteq settled'
  <2>1. PICK x \in targets[r], n \in {1, 2} :
           sent' = [sent EXCEPT ![Head(todo[r])][x] = @ + n]
    BY <1>4 DEF Publish, PublishResent
  <2>2. step[r] = "publish" /\ UNCHANGED <<row, deleted, settled>>
    BY <1>4 DEF Publish, PublishResent, tableVars
  <2>3. PICK h : h = Head(todo[r])
    OBVIOUS
  <2>4. h \in Events /\ row[h] = "visible"
    <3>1. todo[r] \in Seq(Events) /\ todo[r] # <<>>
      BY <2>2 DEF Typed, TypeOK, RowAtHand
    <3> QED
      BY <2>3, <3>1, HeadAndTail DEF Held, Locked
  <2>5. \A e \in Events : e # h => sent'[e] = sent[e]
    BY <2>1, <2>3, <2>4 DEF Typed, TypeOK
  <2> QED
    BY <2>2, <2>4, <2>5 DEF DeletedAreSettled
<1>5. ASSUME NEW r \in Relays, Commit(r) \/ Rollback(r) \/ Crash(r)
      PROVE  DeletedAreSettled' /\ settled \subseteq settled'
  <2>1. /\ \A e \in Events : row'[e] = row[e] \/ (e \in deleted[r] /\ row'[e] = "deleted")
        /\ deleted' = [deleted EXCEPT ![r] = {}]
        /\ UNCHANGED <<sent, settled>>
    BY <1>5 DEF Commit, Rollback, Crash, EndOfTransaction, tableVars, historyVars
  <2>2. \A q \in Relays : deleted'[q] \subseteq deleted[q]
    BY <2>1 DEF Typed, TypeOK
  <2> QED
    BY <2>1, <2>2 DEF DeletedAreSettled
<1> QED
  BY <1>1, <1>2, <1>3, <1>4, <1>5
  DEF Next, Work, IdlePoll, BeginTx, AbortTx, Start, Stop, LoopEnds, Fetch, vars, tableVars,
      relayVars, historyVars

\* The SELECT orders by createdAt and takes the oldest rows there are.
LEMMA BatchOrder ==
    ASSUME TypeOK, NEW b \in Batches
    PROVE  /\ \A i, j \in 1..Len(b) : i < j => CreatedAt(b[i]) <= CreatedAt(b[j])
           /\ \A e \in Available, i \in 1..Len(b) :
                 e \notin Rows(b) => CreatedAt(b[i]) <= CreatedAt(e)
<1> DEFINE size == SmallerOf(BatchSize, Cardinality(Available))
<1>1. size \in Nat
  <2>1. IsFiniteSet(Available)
    BY RelayAssumption, FS_Subset DEF Available
  <2> QED
    BY <2>1, FS_CardinalityType, RelayAssumption DEF SmallerOf
<1>2. /\ b \in [1..size -> Available]
      /\ \A i, j \in 1..size : i < j => CreatedAt(b[i]) <= CreatedAt(b[j])
      /\ \A e \in Available, i \in 1..size :
            (\A j \in 1..size : b[j] # e) => CreatedAt(b[i]) <= CreatedAt(e)
  BY DEF Batches
<1> HIDE DEF size
<1>3. Len(b) = size
  BY <1>1, <1>2
<1> QED
  BY <1>2, <1>3 DEF Rows

\* A fetched batch holds the unsettled causes of each of its rows, before it.
LEMMA FetchCauses ==
    ASSUME TypeOK, Held, CausesExist, DeletedAreSettled, NEW b \in Batches,
           \A q \in Relays : ~BatchOpen(q),
           NEW i \in 1..Len(b), NEW f \in Events, f \in Causes(TxOf[b[i]]), f \notin settled
    PROVE  \E j \in 1..Len(b) : j < i /\ b[j] = f
<1>1. b \in Seq(Events) /\ i \in Nat /\ b[i] \in Events /\ TxOf[b[i]] \in Txs
  BY BatchRows, RelayAssumption
<1>2. CreatedAt(f) \in Nat /\ CreatedAt(b[i]) \in Nat
  BY <1>1, RelayAssumption DEF TypeOK, CreatedAt
<1>3. row[f] # "absent" /\ CreatedAt(f) < CreatedAt(b[i])
  BY <1>1 DEF CausesExist, Causes, CreatedAt
<1>4. f \in Available
  <2>1. row[f] = "visible"
    BY <1>3 DEF TypeOK, DeletedAreSettled
  <2>2. \A q \in Relays : Locked(q) = {}
    BY EmptyBatch DEF Held, BatchOpen
  <2>3. lockedBy[f] = NoRelay
    BY <2>2 DEF Locked, TypeOK
  <2> QED
    BY <2>1, <2>3 DEF Available
<1>5. PICK j \in 1..Len(b) : b[j] = f
  BY <1>2, <1>3, <1>4, BatchOrder DEF Rows
<1>6. j < i
  <2>1. i # j
    BY <1>2, <1>3, <1>5
  <2>2. ~(i < j)
    BY <1>2, <1>3, <1>5, BatchOrder
  <2>3. j \in Nat
    BY <1>1
  <2> QED
    BY <1>1, <2>1, <2>2, <2>3
<1> QED
  BY <1>5, <1>6

LEMMA CausesFirstStep ==
    /\ Typed /\ RowsOfTx /\ Held /\ CausesExist /\ DeletedAreSettled /\ CausesFirst
    /\ settled \subseteq settled'
    /\ [Next]_vars
    => CausesFirst'
<1> SUFFICES ASSUME Typed, RowsOfTx, Held, CausesExist, DeletedAreSettled, CausesFirst,
                    settled \subseteq settled', [Next]_vars,
                    ~overlapped'
             PROVE  \A r \in Relays : \A i \in 1..Len(todo'[r]), f \in Events :
                       f \in Causes(TxOf[todo[r][i]])' =>
                          f \in settled' \/ \E j \in 1..Len(todo'[r]) : j < i /\ todo'[r][j] = f
  BY DEF CausesFirst
<1> DEFINE First(q) ==
      \A i \in 1..Len(todo[q]), f \in Events :
         f \in Causes(TxOf[todo[q][i]]) =>
            f \in settled \/ \E j \in 1..Len(todo[q]) : j < i /\ todo[q][j] = f
<1> SUFFICES \A q \in Relays : First(q)'
  OBVIOUS
<1>o. ~overlapped
  BY DEF Next, Work, IdlePoll, BeginTx, CommitTx, AbortTx, Start, Stop, LoopEnds, Fetch,
         ProcessRow, Publish, DeleteRow, PublishResent, Commit, Rollback, Crash, vars, historyVars
<1>h. \A q \in Relays : First(q)
  BY <1>o DEF CausesFirst
<1>c. \A e \in Events : row[e] # "absent" => Causes(TxOf[e])' = Causes(TxOf[e])
  BY CausesKept
<1>r. \A q \in Relays : todo[q] \in Seq(Events) /\ \A i \in 1..Len(todo[q]) :
         todo[q][i] \in Events /\ row[todo[q][i]] # "absent"
  <2> SUFFICES ASSUME NEW q \in Relays, NEW i \in 1..Len(todo[q])
               PROVE  todo[q][i] \in Events /\ row[todo[q][i]] # "absent"
    BY DEF Typed, TypeOK
  <2>1. todo[q][i] \in Rows(todo[q])
    BY DEF Rows
  <2> QED
    BY <2>1 DEF Held, Locked
<1>1. ASSUME NEW q \in Relays, UNCHANGED todo[q] PROVE First(q)'
  <2>1. \A i \in 1..Len(todo[q]) : Causes(TxOf[todo[q][i]])' = Causes(TxOf[todo[q][i]])
    BY <1>1, <1>c, <1>r
  <2> QED
    BY <1>1, <1>h, <2>1
<1>2. ASSUME NEW r \in Relays, Fetch(r), NEW q \in Relays PROVE First(q)'
  <2>1. PICK b \in Batches : todo' = [todo EXCEPT ![r] = b]
    BY <1>2 DEF Fetch
  <2>2. /\ step[r] = "idle" /\ UNCHANGED settled
        /\ \A p \in Relays \ {r} : ~BatchOpen(p)
    BY <1>2 DEF Fetch
  <2>3. \A p \in Relays : ~BatchOpen(p)
    BY <2>2 DEF BatchOpen
  <2>4. CASE q = r
    <3>1. todo'[q] = b
      BY <2>1, <2>4 DEF Typed, TypeOK
    <3>2. \A i \in 1..Len(b) : Causes(TxOf[b[i]])' = Causes(TxOf[b[i]])
      <4> SUFFICES ASSUME NEW i \in 1..Len(b) PROVE Causes(TxOf[b[i]])' = Causes(TxOf[b[i]])
        OBVIOUS
      <4>1. b[i] \in Events /\ row[b[i]] # "absent"
        BY BatchRows DEF Typed
      <4> QED
        BY <1>c, <4>1
    <3>3. \A i \in 1..Len(b), f \in Events :
             f \in Causes(TxOf[b[i]]) => f \in settled \/ \E j \in 1..Len(b) : j < i /\ b[j] = f
      BY <2>3, FetchCauses DEF Typed
    <3> QED
      BY <2>2, <3>1, <3>2, <3>3
  <2>5. CASE q # r
    <3>1. todo'[q] = todo[q]
      BY <2>1, <2>5 DEF Typed, TypeOK
    <3> QED
      BY <1>1, <2>2, <3>1
  <2> QED
    BY <2>4, <2>5
<1>3. ASSUME NEW r \in Relays, ProcessRow(r) \/ DeleteRow(r), NEW q \in Relays PROVE First(q)'
  <2>1. /\ todo[r] \in Seq(Events) /\ todo[r] # <<>>
        /\ \/ UNCHANGED todo
           \/ todo' = [todo EXCEPT ![r] = Tail(@)] /\ Head(todo[r]) \in settled'
    BY <1>3 DEF ProcessRow, DeleteRow, Typed, TypeOK, RowAtHand
  <2>2. CASE UNCHANGED todo[q]
    BY <1>1, <2>1, <2>2
  <2>3. CASE /\ q = r
             /\ todo' = [todo EXCEPT ![r] = Tail(@)] /\ Head(todo[r]) \in settled'
    <3>1. todo'[q] = Tail(todo[q])
      BY <2>3 DEF Typed, TypeOK
    <3> DEFINE s == todo[q]
    <3>2. /\ Len(s) \in Nat \ {0} /\ Head(s) = s[1]
          /\ Len(Tail(s)) = Len(s) - 1
          /\ \A i \in 1..Len(Tail(s)) : i + 1 \in 1..Len(s) /\ Tail(s)[i] = s[i + 1]
      BY <2>1, <2>3
    <3> SUFFICES ASSUME NEW i \in 1..Len(Tail(s)), NEW f \in Events,
                        f \in Causes(TxOf[todo[q][i]])', f \notin settled'
                 PROVE  \E j \in 1..Len(Tail(s)) : j < i /\ Tail(s)[j] = f
      BY <3>1
    <3>3. i + 1 \in 1..Len(s) /\ f \in Causes(TxOf[s[i + 1]]) /\ f \notin settled
      <4>1. PICK e \in Events : e = s[i + 1] /\ row[e] # "absent"
        BY <1>r, <3>2
      <4>2. todo'[q][i] = e
        BY <3>1, <3>2, <4>1
      <4>3. f \in Causes(TxOf[e])'
        BY <4>2
      <4> QED
        BY <1>c, <3>2, <4>1, <4>3
    <3>4. PICK j \in 1..Len(s) : j < i + 1 /\ s[j] = f
      BY <1>h, <3>3
    <3>5. j # 1
      BY <2>3, <3>2, <3>4
    <3>6. j - 1 \in 1..Len(Tail(s)) /\ j - 1 < i /\ j - 1 + 1 = j
      BY <3>2, <3>4, <3>5
    <3>7. Tail(s)[j - 1] = f
      BY <3>2, <3>4, <3>6
    <3> QED
      BY <3>6, <3>7
  <2>4. CASE q # r
    BY <1>1, <2>1, <2>4 DEF Typed, TypeOK
  <2> QED
    BY <2>1, <2>2, <2>3, <2>4
<1>4. ASSUME NEW r \in Relays, Commit(r) \/ Rollback(r) \/ Crash(r), NEW q \in Relays
      PROVE  First(q)'
  <2>1. todo' = [todo EXCEPT ![r] = <<>>]
    BY <1>4 DEF Commit, Rollback, Crash, EndOfTransaction
  <2>2. CASE q = r
    <3>1. Len(todo'[q]) = 0
      BY <2>1, <2>2 DEF Typed, TypeOK
    <3> QED
      BY <3>1
  <2>3. CASE q # r
    BY <1>1, <2>1, <2>3 DEF Typed, TypeOK
  <2> QED
    BY <2>2, <2>3
<1>5. ASSUME UNCHANGED todo, NEW q \in Relays PROVE First(q)'
  BY <1>1, <1>5
<1> HIDE DEF First
<1> QED
  BY <1>2, <1>3, <1>4, <1>5
  DEF Next, Work, IdlePoll, BeginTx, CommitTx, AbortTx, Start, Stop, LoopEnds, Publish,
      PublishResent, vars, relayVars

LEMMA CausalOrderStep ==
    /\ Typed /\ RowsOfTx /\ Held /\ CausesExist /\ DeletedAreSettled /\ CausesFirst /\ CausalOrder
    /\ settled \subseteq settled'
    /\ [Next]_vars
    => CausalOrder'
<1> SUFFICES ASSUME Typed, RowsOfTx, Held, CausesExist, DeletedAreSettled, CausesFirst, CausalOrder,
                    settled \subseteq settled', [Next]_vars, ~overlapped',
                    NEW e \in Events, NEW x \in Targets, sent'[e][x] > 0
             PROVE  Causes(TxOf[e])' \subseteq settled'
  BY DEF CausalOrder
<1>o. ~overlapped
  BY DEF Next, Work, IdlePoll, BeginTx, CommitTx, AbortTx, Start, Stop, LoopEnds, Fetch,
         ProcessRow, Publish, DeleteRow, PublishResent, Commit, Rollback, Crash, vars, historyVars
<1>1. ASSUME sent[e][x] > 0 PROVE Causes(TxOf[e])' \subseteq settled'
  <2>1. row[e] # "absent" /\ Causes(TxOf[e]) \subseteq settled
    BY <1>o, <1>1 DEF CausalOrder, DeletedAreSettled
  <2> QED
    BY <2>1, CausesKept
<1>2. ASSUME NEW r \in Relays, Publish(r) \/ PublishResent(r)
      PROVE  Causes(TxOf[e])' \subseteq settled'
  <2>1. PICK y \in targets[r], n \in {1, 2} :
           sent' = [sent EXCEPT ![Head(todo[r])][y] = @ + n]
    BY <1>2 DEF Publish, PublishResent
  <2>2. step[r] = "publish"
    BY <1>2 DEF Publish, PublishResent
  <2>3. /\ todo[r] \in Seq(Events) /\ todo[r] # <<>>
        /\ Len(todo[r]) \in Nat \ {0} /\ Head(todo[r]) = todo[r][1] /\ 1 \in 1..Len(todo[r])
    BY <2>2 DEF Typed, TypeOK, RowAtHand
  <2>4. CASE e = Head(todo[r])
    <3>1. ASSUME NEW f \in Events, f \in Causes(TxOf[e]) PROVE f \in settled
      <4>1. f \in settled \/ \E j \in 1..Len(todo[r]) : j < 1 /\ todo[r][j] = f
        BY <1>o, <2>3, <2>4, <3>1 DEF CausesFirst
      <4> QED
        BY <2>3, <4>1
    <3>2. Causes(TxOf[e]) \subseteq Events
      BY RelayAssumption DEF Typed, TypeOK, Causes
    <3>3. row[e] # "absent"
      BY <2>3, <2>4 DEF Rows, Held, Locked
    <3> QED
      BY <3>1, <3>2, <3>3, CausesKept
  <2>5. CASE e # Head(todo[r])
    <3>1. sent'[e][x] = sent[e][x]
      BY <2>1, <2>5 DEF Typed, TypeOK
    <3> QED
      BY <1>1, <3>1
  <2> QED
    BY <2>4, <2>5
<1>3. ASSUME UNCHANGED sent PROVE Causes(TxOf[e])' \subseteq settled'
  BY <1>1, <1>3
<1> QED
  BY <1>2, <1>3
  DEF Next, Work, IdlePoll, BeginTx, CommitTx, AbortTx, Start, Stop, LoopEnds, Fetch,
      ProcessRow, DeleteRow, Commit, Rollback, Crash, vars, historyVars

\* While no two relays overlap, no event is published before one that began and
\* was committed earlier: the order of createdAt is enough for these, although
\* rows become visible in another order.
THEOREM CausalOrderAlways == Spec => []CausalOrder
<1> DEFINE Causal == CausesExist /\ DeletedAreSettled /\ CausesFirst /\ CausalOrder
<1>1. Init => Causal
  BY CausalInit
<1>2. RelayInv /\ TypeOK' /\ Causal /\ [Next]_vars => Causal'
  BY ExistStep, SettledStep, CausesFirstStep, CausalOrderStep DEF RelayInv, Typed
<1> QED
  BY <1>1, <1>2, RelayInvariant, TypeCorrect, PTL DEF Spec

=============================================================================
