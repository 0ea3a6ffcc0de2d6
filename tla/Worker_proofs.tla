---------------------------- MODULE Worker_proofs ----------------------------
(***************************************************************************)
(* The tables the worker writes.                                           *)
(*                                                                         *)
(* SystemEvents, for any factions, states, types of conflict, powers and   *)
(* messages and any number of transactions: the tables are well typed, and *)
(* the events leave a subscriber with what the tables say, with the two    *)
(* exceptions the properties name.  NewWord takes the words of a step      *)
(* apart by the sets of its events; one lemma for each kind of subject     *)
(* then shows how they fit what the tables say (WordsFit).  The invariant  *)
(* is of the words that will come last (LastAllowed): a commit in turn     *)
(* puts its words after all others (CommitLast), the relay takes none of   *)
(* them away (PublishLast).                                                *)
(*                                                                         *)
(* Stations, for any number of jobs, systems, stations and transactions:   *)
(* keys stay unique, carriers are in strongholds unless they strayed, and  *)
(* a job that was not raced stores its station.  The invariant is one of a *)
(* job over the committed rows (Job) and one of two jobs (Apart).  A       *)
(* statement changes one job, of which a lemma each is proved without a    *)
(* primed variable (BeginJob to SkipJob); a commit changes the rows under  *)
(* the others (CommitJob).                                                 *)
(***************************************************************************)
EXTENDS SystemEvents, Stations, TLAPS

-----------------------------------------------------------------------------
(* SystemEvents: subjects, and the words about them.                       *)

LEMMA PresenceShape ==
    ASSUME NEW f
    PROVE  PresenceOf(f).kind = "presence" /\ PresenceOf(f).faction = f
BY DEF PresenceOf

LEMMA StateShape ==
    ASSUME NEW f, NEW s
    PROVE  /\ StateOf(f, s).kind = "state"
           /\ StateOf(f, s).faction = f /\ StateOf(f, s).state = s
BY DEF StateOf

LEMMA ConflictShape ==
    ASSUME NEW p, NEW t
    PROVE  /\ ConflictOf(p, t).kind = "conflict"
           /\ ConflictOf(p, t).pair = p /\ ConflictOf(p, t).type = t
BY DEF ConflictOf

LEMMA SubjectsOfKinds ==
    ASSUME NEW x \in Subjects
    PROVE  \/ x.kind = "presence" /\ \E f \in Factions : x = PresenceOf(f)
           \/ x.kind = "state" /\ x \in StateSubjects
           \/ x.kind = "conflict" /\ \E p \in Pairs, t \in ConflictTypes : x = ConflictOf(p, t)
BY PresenceShape, StateShape, ConflictShape DEF Subjects, StateSubjects

\* The subjects of the conflict events.
EndedConflicts(before, after) ==
    {ConflictOf(p, before[p].type) : p \in
        {q \in DOMAIN before :
            /\ Lifecycle(before[q]) # "null"
            /\ Changed(before[q], Row(after, q, NoConflict))}}
BegunConflicts(before, after, lifecycle) ==
    {ConflictOf(p, after[p].type) : p \in
        {q \in DOMAIN after :
            /\ Lifecycle(after[q]) = lifecycle
            /\ Changed(Row(before, q, NoConflict), after[q])}}

\* A set of events has the word w about x.
Tells(E, x, w) == \E e \in E : e.about = x /\ e.word = w

LEMMA ToldAbout ==
    ASSUME NEW A, NEW v, NEW x, NEW w
    PROVE  Tells(Told(A, v), x, w) <=> x \in A /\ w = v
<1>1. \A e \in Told(A, v) : e.about \in A /\ e.word = v
  BY DEF Told
<1>2. x \in A => [about |-> x, word |-> v] \in Told(A, v)
  BY DEF Told
<1> QED BY <1>1, <1>2 DEF Tells

\* Which words a step has for the subject, by the sets of its events.
LEMMA NewWord ==
    ASSUME NEW w
    PROVE  w \in NewWords <=>
              \/ w = "entered" /\ subject \in {PresenceOf(f) : f \in present' \ present}
              \/ w = "left" /\ subject \in {PresenceOf(f) : f \in present \ present'}
              \/ w = "pending" /\ subject \in BecamePending(states, states')
              \/ w = "active" /\ subject \in BecameActive(states, states')
              \/ w = "ended" /\ subject \in Ended(states, states')
              \/ w = "ended" /\ subject \in EndedConflicts(conflicts, conflicts')
              \/ w = "pending" /\ subject \in BegunConflicts(conflicts, conflicts', "pending")
              \/ w = "active" /\ subject \in BegunConflicts(conflicts, conflicts', "active")
<1> DEFINE P == {PresenceOf(f) : f \in present' \ present}
           L == {PresenceOf(f) : f \in present \ present'}
<1>1. w \in NewWords <=> Tells(News, subject, w)
  BY DEF NewWords, Tells
<1>2. Tells(News, subject, w) <=>
         \/ Tells(Told(P, "entered"), subject, w) \/ Tells(Told(L, "left"), subject, w)
         \/ Tells(Told(BecamePending(states, states'), "pending"), subject, w)
         \/ Tells(Told(BecameActive(states, states'), "active"), subject, w)
         \/ Tells(Told(Ended(states, states'), "ended"), subject, w)
         \/ Tells(Told(EndedConflicts(conflicts, conflicts'), "ended"), subject, w)
         \/ Tells(Told(BegunConflicts(conflicts, conflicts', "pending"), "pending"), subject, w)
         \/ Tells(Told(BegunConflicts(conflicts, conflicts', "active"), "active"), subject, w)
  BY DEF Tells, News, Presence, ConflictEnded, ConflictBegun, EndedConflicts, BegunConflicts
<1> HIDE DEF P, L
<1> QED BY <1>1, <1>2, ToldAbout DEF P, L

\* The words about a subject of each kind, from its row before and after.
LEMMA PresenceWords ==
    ASSUME NEW f, subject = PresenceOf(f), NEW w
    PROVE  w \in NewWords <=> \/ w = "entered" /\ f \in present' \ present
                              \/ w = "left" /\ f \in present \ present'
<1>1. subject.kind = "presence" /\ \A g : subject = PresenceOf(g) <=> g = f
  BY PresenceShape
<1>2. \A b, a : /\ subject \notin BecamePending(b, a) /\ subject \notin BecameActive(b, a)
                /\ subject \notin Ended(b, a)
  BY <1>1, StateShape DEF BecamePending, BecameActive, Ended, StateSubjects
<1>3. \A b, a, l : subject \notin EndedConflicts(b, a) /\ subject \notin BegunConflicts(b, a, l)
  BY <1>1, ConflictShape DEF EndedConflicts, BegunConflicts
<1> QED BY <1>1, <1>2, <1>3, NewWord

LEMMA StateWords ==
    ASSUME subject \in StateSubjects, NEW b, b = StatesOfSubject,
           NEW a, a = Row(states', subject.faction, NoStates), NEW w
    PROVE  w \in NewWords <=>
              \/ w = "pending" /\ subject.state \in a.pending \ b.pending
              \/ w = "active" /\ subject.state \in a.active \ b.active
              \/ w = "ended" /\ subject.state \in Listed(b) \ Listed(a)
<1>1. subject.kind = "state"
  BY StateShape DEF StateSubjects
<1>2. \A g : subject # PresenceOf(g)
  BY <1>1, PresenceShape
<1>3. \A u, v, l : subject \notin EndedConflicts(u, v) /\ subject \notin BegunConflicts(u, v, l)
  BY <1>1, ConflictShape DEF EndedConflicts, BegunConflicts
<1>4. /\ subject \in BecamePending(states, states') <=> subject.state \in a.pending \ b.pending
      /\ subject \in BecameActive(states, states') <=> subject.state \in a.active \ b.active
      /\ subject \in Ended(states, states') <=> subject.state \in Listed(b) \ Listed(a)
  BY DEF BecamePending, BecameActive, Ended, StatesOfSubject
<1> QED BY <1>2, <1>3, <1>4, NewWord

LEMMA LifecycleValues ==
    /\ \A row : Lifecycle(row) \in {"pending", "active", "null"}
    /\ Lifecycle(NoConflict) = "null"
BY DEF Lifecycle, NoConflict

LEMMA ConflictWords ==
    ASSUME NEW p, NEW t, subject = ConflictOf(p, t),
           NEW b, b = Row(conflicts, p, NoConflict), NEW a, a = Row(conflicts', p, NoConflict),
           NEW w
    PROVE  w \in NewWords <=>
              \/ w = "ended" /\ b.type = t /\ Lifecycle(b) # "null" /\ Changed(b, a)
              \/ w \in {"pending", "active"} /\ a.type = t /\ Lifecycle(a) = w /\ Changed(b, a)
<1>1. /\ subject.kind = "conflict"
      /\ \A q, u : subject = ConflictOf(q, u) <=> q = p /\ u = t
  BY ConflictShape
<1>2. \A g : subject # PresenceOf(g)
  BY <1>1, PresenceShape
<1>3. \A u, v : /\ subject \notin BecamePending(u, v) /\ subject \notin BecameActive(u, v)
                /\ subject \notin Ended(u, v)
  BY <1>1, StateShape DEF BecamePending, BecameActive, Ended, StateSubjects
<1>4. subject \in EndedConflicts(conflicts, conflicts') <=>
          b.type = t /\ Lifecycle(b) # "null" /\ Changed(b, a)
  <2>1. subject \in EndedConflicts(conflicts, conflicts') <=>
            /\ p \in DOMAIN conflicts /\ conflicts[p].type = t
            /\ Lifecycle(conflicts[p]) # "null" /\ Changed(conflicts[p], a)
    BY <1>1 DEF EndedConflicts
  <2> QED BY <2>1, LifecycleValues DEF Row
<1>5. ASSUME NEW l \in {"pending", "active"}
      PROVE  subject \in BegunConflicts(conflicts, conflicts', l) <=>
                 a.type = t /\ Lifecycle(a) = l /\ Changed(b, a)
  <2>1. subject \in BegunConflicts(conflicts, conflicts', l) <=>
            /\ p \in DOMAIN conflicts' /\ conflicts'[p].type = t
            /\ Lifecycle(conflicts'[p]) = l /\ Changed(b, conflicts'[p])
    BY <1>1 DEF BegunConflicts
  <2> QED BY <1>5, <2>1, LifecycleValues DEF Row
<1> QED BY <1>2, <1>3, <1>4, <1>5, NewWord

\* What a step tells and what the tables say before and after it.
WordsFit ==
    /\ NewWords \cap Says = {}
    /\ NewWords = {} => /\ Blur \subseteq Blur'
                        /\ IF InBothLists /\ ~InBothLists' THEN Says \subseteq Blur'
                           ELSE Says \subseteq Says'
    /\ (\A v, w \in NewWords : v = w) => NewWords \subseteq Says'
    /\ (\E v, w \in NewWords : v # w) => NewWords \subseteq Blur'

LEMMA PresenceFits ==
    ASSUME NEW f, subject = PresenceOf(f), subject' = subject
    PROVE  WordsFit
<1>1. subject.kind = "presence" /\ subject.faction = f
  BY PresenceShape
<1>2. /\ Says = {IF f \in present THEN "entered" ELSE "left"}
      /\ Says' = {IF f \in present' THEN "entered" ELSE "left"}
      /\ Blur = {} /\ Blur' = {}
  BY <1>1 DEF Says, Blur
<1>4. ~InBothLists
  BY <1>1 DEF InBothLists
<1>3. \A w : w \in NewWords <=> \/ w = "entered" /\ f \in present' \ present
                                \/ w = "left" /\ f \in present \ present'
  BY PresenceWords
<1> QED BY <1>2, <1>3, <1>4 DEF WordsFit

LEMMA StateFits ==
    ASSUME subject \in StateSubjects, subject' = subject
    PROVE  WordsFit
<1> DEFINE b == Row(states, subject.faction, NoStates)
           a == Row(states', subject.faction, NoStates)
           s == subject.state
<1>1. subject.kind = "state"
  BY StateShape DEF StateSubjects
<1>2. \A w : w \in NewWords <=>
              \/ w = "pending" /\ s \in a.pending \ b.pending
              \/ w = "active" /\ s \in a.active \ b.active
              \/ w = "ended" /\ s \in Listed(b) \ Listed(a)
  BY StateWords DEF StatesOfSubject
<1>3. \A w : /\ w \in Says <=> \/ w = "pending" /\ s \in b.pending
                               \/ w = "active" /\ s \in b.active
                               \/ w = "ended" /\ s \notin Listed(b)
             /\ w \in Says' <=> \/ w = "pending" /\ s \in a.pending
                                \/ w = "active" /\ s \in a.active
                                \/ w = "ended" /\ s \notin Listed(a)
  BY <1>1 DEF Says, StatesOfSubject
<1>4. /\ InBothLists <=> s \in b.pending /\ s \in b.active
      /\ InBothLists' <=> s \in a.pending /\ s \in a.active
  BY <1>1 DEF InBothLists, StatesOfSubject
<1>5. /\ Blur = IF Says = {"ended"} THEN {} ELSE {"pending", "active"}
      /\ Blur' = IF Says' = {"ended"} THEN {} ELSE {"pending", "active"}
  BY <1>1 DEF Blur
<1> HIDE DEF a, b, s
<1>6. /\ Says = {"ended"} <=> s \notin Listed(b)
      /\ Says' = {"ended"} <=> s \notin Listed(a)
  BY <1>3 DEF Listed
<1>7. NewWords \cap Says = {}
  BY <1>2, <1>3 DEF Listed
<1>8. ASSUME NewWords = {}
      PROVE  /\ Blur \subseteq Blur'
             /\ IF InBothLists /\ ~InBothLists' THEN Says \subseteq Blur'
                ELSE Says \subseteq Says'
  <2>1. /\ s \in a.pending => s \in b.pending
        /\ s \in a.active => s \in b.active
        /\ s \in Listed(b) => s \in Listed(a)
    BY <1>2, <1>8
  <2>2. Blur \subseteq Blur'
    BY <1>5, <1>6, <2>1
  <2>3. CASE s \in b.pending /\ s \in b.active /\ ~(s \in a.pending /\ s \in a.active)
    <3>1. Says \subseteq {"pending", "active"}
      BY <1>3, <2>3 DEF Listed
    <3>2. Blur' = {"pending", "active"}
      BY <1>5, <1>6, <2>1, <2>3 DEF Listed
    <3> QED BY <1>4, <2>2, <2>3, <3>1, <3>2
  <2>4. CASE ~(s \in b.pending /\ s \in b.active /\ ~(s \in a.pending /\ s \in a.active))
    <3>1. Says \subseteq Says'
      BY <1>3, <2>1, <2>4 DEF Listed
    <3> QED BY <1>4, <2>2, <2>4, <3>1
  <2> QED BY <2>3, <2>4
<1>9. NewWords \subseteq Says'
  BY <1>2, <1>3
<1>10. ASSUME NEW v \in NewWords, NEW w \in NewWords, v # w
       PROVE  NewWords \subseteq Blur'
  <2>1. s \in Listed(a)
    BY <1>2, <1>10 DEF Listed
  <2>2. NewWords \subseteq {"pending", "active"}
    BY <1>2, <2>1
  <2> QED BY <1>5, <1>6, <2>1, <2>2
<1> QED BY <1>7, <1>8, <1>9, <1>10 DEF WordsFit

LEMMA ConflictFits ==
    ASSUME NEW p, NEW t, subject = ConflictOf(p, t), subject' = subject
    PROVE  WordsFit
<1> DEFINE b == Row(conflicts, p, NoConflict)
           a == Row(conflicts', p, NoConflict)
           Word(row) == IF row.type = t /\ Lifecycle(row) # "null" THEN Lifecycle(row)
                        ELSE "ended"
<1>1. subject.kind = "conflict" /\ subject.pair = p /\ subject.type = t
  BY ConflictShape
<1>2. \A w : w \in NewWords <=>
              \/ w = "ended" /\ b.type = t /\ Lifecycle(b) # "null" /\ Changed(b, a)
              \/ w \in {"pending", "active"} /\ a.type = t /\ Lifecycle(a) = w /\ Changed(b, a)
  BY ConflictWords
<1>3. Says = {Word(b)} /\ Says' = {Word(a)}
  BY <1>1 DEF Says, ConflictOfSubject
<1>4. /\ Blur = IF Word(b) = "ended" THEN {} ELSE {Word(b), "ended"}
      /\ Blur' = IF Word(a) = "ended" THEN {} ELSE {Word(a), "ended"}
  BY <1>1, <1>3 DEF Blur
<1>5. /\ Lifecycle(a) \in {"pending", "active", "null"}
      /\ Lifecycle(b) \in {"pending", "active", "null"}
  BY LifecycleValues
<1> HIDE DEF a, b
<1>6. NewWords \cap Says = {}
  BY <1>2, <1>3, <1>5 DEF Changed
<1>7. NewWords = {} => Word(a) = Word(b)
  BY <1>2, <1>5 DEF Changed
<1>8. (\A v, w \in NewWords : v = w) => NewWords \subseteq {Word(a)}
  BY <1>2, <1>5 DEF Changed
<1>9. ASSUME NEW v \in NewWords, NEW w \in NewWords, v # w
      PROVE  NewWords \subseteq {Word(a), "ended"} /\ Word(a) # "ended"
  <2>1. \A u \in NewWords : u = "ended" \/ (a.type = t /\ Lifecycle(a) = u /\ u # "null")
    BY <1>2
  <2>2. a.type = t /\ Lifecycle(a) \in {"pending", "active"}
    BY <1>2, <1>9
  <2> QED BY <2>1, <2>2
<1>10. ~InBothLists
  BY <1>1 DEF InBothLists
<1> QED BY <1>3, <1>4, <1>6, <1>7, <1>8, <1>9, <1>10 DEF WordsFit

\* Every step that leaves the subject fits.
LEMMA Fits == subject \in Subjects /\ subject' = subject => WordsFit
BY SubjectsOfKinds, PresenceFits, StateFits, ConflictFits

-----------------------------------------------------------------------------
(* Type correctness.                                                       *)

LEMMA RowsOf ==
    ASSUME NEW D, NEW R, NEW f
    PROVE  f \in Rows(D, R) <=> \E S \in SUBSET D : f \in [S -> R]
BY DEF Rows

LEMMA ConflictsOfType ==
    ASSUME NEW m \in Messages, NEW factions
    PROVE  /\ ConflictsOf(m, factions) \in Rows(Pairs, ConflictRow)
           /\ \A p \in DOMAIN ConflictsOf(m, factions) : p[1] \in factions /\ p[2] \in factions
<1> DEFINE S == {p \in DOMAIN m.conflicts : p[1] \in factions /\ p[2] \in factions}
<1>1. m.conflicts \in Rows(Pairs, ConflictRow)
  BY EventsAssumption DEF PossibleMessages
<1>2. PICK D \in SUBSET Pairs : m.conflicts \in [D -> ConflictRow]
  BY <1>1, RowsOf
<1>3. ConflictsOf(m, factions) = [p \in S |-> m.conflicts[p]]
  BY DEF ConflictsOf, Restrict
<1>4. ConflictsOf(m, factions) \in [S -> ConflictRow] /\ S \in SUBSET Pairs
  BY <1>2, <1>3
<1> QED BY <1>3, <1>4, RowsOf

\* The parts of the types that different actions change.
TablesTyped ==
    /\ known \subseteq Factions
    /\ present \subseteq known
    /\ states \in Rows(Factions, StateRow)
    /\ conflicts \in Rows(Pairs, ConflictRow)
    /\ powers \subseteq Powers
    /\ contested \subseteq Powers
    /\ TablesAgree
RelayTyped ==
    /\ open \subseteq Starts
    /\ outbox \subseteq OutboxRow
    /\ subject \in Subjects
    /\ heard \in Words
    /\ reversed \in BOOLEAN /\ blurred \in BOOLEAN

LEMMA TypedInParts == TypeOK <=> TablesTyped /\ RelayTyped
BY DEF TypeOK, TablesTyped, RelayTyped

\* A message that is processed: what the tables become, type by type.
LEMMA ProcessTables ==
    ASSUME TablesTyped, NEW m \in Messages, NEW n, FullMessage(n, m)
    PROVE  TablesTyped'
<1> USE DEF TablesTyped, TablesAgree
<1>0. m \in PossibleMessages
  BY EventsAssumption
<1>1. powers' \subseteq Powers /\ contested' \subseteq Powers /\ contested' \subseteq powers'
  BY <1>0 DEF FullMessage, ProcessPowerplayData, PossibleMessages
<1>2. CASE DOMAIN m.factions = {}
  BY <1>1, <1>2 DEF FullMessage, factionVars
<1>3. CASE DOMAIN m.factions # {}
  <2> DEFINE factions == DOMAIN m.factions
  <2>1. m.factions \in Rows(Factions, StateRow)
    BY <1>0 DEF PossibleMessages
  <2>2. PICK D \in SUBSET Factions : m.factions \in [D -> StateRow]
    BY <2>1, RowsOf
  <2>3. /\ known' = known \cup factions /\ present' = factions
        /\ states' = m.factions
        /\ conflicts' = ConflictsOf(m, known \cup factions)
    BY <1>3 DEF FullMessage, ProcessFactionsData
  <2>4. known' \subseteq Factions /\ present' \subseteq known'
    BY <2>2, <2>3
  <2>5. states' \in Rows(Factions, StateRow) /\ present' = DOMAIN states'
    BY <2>1, <2>3
  <2>6. conflicts' \in Rows(Pairs, ConflictRow)
    BY <2>3, ConflictsOfType
  <2>7. \A p \in DOMAIN conflicts' : {p[1], p[2]} \subseteq known'
    BY <2>3, ConflictsOfType
  <2> QED BY <1>1, <2>4, <2>5, <2>6, <2>7
<1> QED BY <1>2, <1>3

LEMMA NewWordsType == NewWords \subseteq Words
BY NewWord DEF Words

LEMMA ProcessRelay ==
    ASSUME RelayTyped, NEW m, NEW n \in open, FullMessage(n, m)
    PROVE  RelayTyped'
<1>1. /\ outbox' = outbox \cup [createdAt : {n}, word : NewWords]
      /\ open' = open \ {n} /\ subject' = subject /\ heard' = heard
      /\ reversed' \in BOOLEAN /\ blurred' \in BOOLEAN
  BY DEF FullMessage, Stamp, RelayTyped
<1>2. [createdAt : {n}, word : NewWords] \subseteq OutboxRow
  BY NewWordsType DEF OutboxRow, RelayTyped
<1> QED BY <1>1, <1>2 DEF RelayTyped

LEMMA InitType == Init => TypeOK
<1> SUFFICES ASSUME Init PROVE TypeOK
  OBVIOUS
<1>1. /\ known = {} /\ present = {} /\ powers = {} /\ contested = {}
      /\ states = [f \in {} |-> NoStates]
      /\ conflicts = [p \in {} |-> NoConflict]
  BY DEF Init
<1>2. states \in [{} -> StateRow] /\ conflicts \in [{} -> ConflictRow]
  BY <1>1
<1>3. states \in Rows(Factions, StateRow) /\ conflicts \in Rows(Pairs, ConflictRow)
  BY <1>2, RowsOf
<1>4. TablesTyped
  BY <1>1, <1>2, <1>3 DEF TablesTyped, TablesAgree
<1>5. RelayTyped
  BY DEF Init, RelayTyped, Words
<1> QED BY <1>4, <1>5, TypedInParts

LEMMA TypeNext ==
    ASSUME TypeOK, [Next]_vars
    PROVE  TypeOK'
<1>0. TablesTyped /\ RelayTyped
  BY TypedInParts
<1>1. ASSUME NEW n \in Starts, BeginMessage(n) PROVE TablesTyped' /\ RelayTyped'
  BY <1>0, <1>1 DEF TablesTyped, TablesAgree, RelayTyped, BeginMessage, factionVars, powerVars,
                    historyVars
<1>2. ASSUME NEW n \in open, AbortMessage(n) PROVE TablesTyped' /\ RelayTyped'
  BY <1>0, <1>2 DEF TablesTyped, TablesAgree, RelayTyped, AbortMessage, factionVars, powerVars,
                    historyVars
<1>3. ASSUME NEW n \in open, NEW m \in Messages, FullMessage(n, m)
      PROVE  TablesTyped' /\ RelayTyped'
  BY <1>0, <1>3, ProcessTables, ProcessRelay
<1>4. ASSUME NEW f \in Factions, FactionSeen(f) PROVE TablesTyped' /\ RelayTyped'
  BY <1>0, <1>4 DEF TablesTyped, TablesAgree, RelayTyped, FactionSeen, powerVars, historyVars
<1>5. ASSUME NEW r \in outbox, Publish(r) \/ PublishInVain(r) PROVE TablesTyped' /\ RelayTyped'
  BY <1>0, <1>5 DEF TablesTyped, TablesAgree, RelayTyped, Publish, PublishInVain, OutboxRow,
                    factionVars, powerVars, historyVars
<1>6. ASSUME UNCHANGED vars PROVE TablesTyped' /\ RelayTyped'
  <2> USE <1>6 DEF vars, factionVars, powerVars, historyVars
  <2>1. TablesTyped'
    BY <1>0 DEF TablesTyped, TablesAgree
  <2>2. RelayTyped'
    BY <1>0 DEF RelayTyped
  <2> QED BY <2>1, <2>2
<1>7. TablesTyped' /\ RelayTyped'
  <2> USE DEF Next
  <2>1. CASE \E n \in Starts : BeginMessage(n)
    BY <1>1, <2>1
  <2>2. CASE \E n \in open : AbortMessage(n) \/ \E m \in Messages : FullMessage(n, m)
    BY <1>2, <1>3, <2>2
  <2>3. CASE \E f \in Factions : FactionSeen(f)
    BY <1>4, <2>3
  <2>4. CASE \E r \in outbox : Publish(r) \/ PublishInVain(r)
    BY <1>5, <2>4
  <2> QED BY <1>6, <2>1, <2>2, <2>3, <2>4
<1> QED BY <1>7 DEF TypeOK, TablesTyped, RelayTyped

\* The tables are well typed and agree with each other after any sequence of
\* messages (processPowerplayData, processFactionsData).
THEOREM TypeCorrect == Spec => []TypeOK
BY InitType, TypeNext, PTL DEF Spec

-----------------------------------------------------------------------------
(* What the subscriber hears last.                                         *)

\* No row has the start of a transaction that is still open.
StartsApart == \A r \in outbox : r.createdAt \notin open

Allowed == IF blurred THEN Blur ELSE Says
LastAllowed == ~reversed => LastWords \subseteq Allowed

EventsInv == TypeOK /\ StartsApart /\ LastAllowed

LEMMA SaysStays ==
    ASSUME UNCHANGED <<present, states, conflicts, subject, blurred>>
    PROVE  Allowed' = Allowed
<1>1. Says' = Says
  BY DEF Says, StatesOfSubject, ConflictOfSubject
<1>2. Blur' = Blur
  BY <1>1 DEF Blur
<1> QED BY <1>1, <1>2 DEF Allowed

\* After a commit out of turn nothing is claimed; after any other one that has
\* news, they come last.
LEMMA CommitLast ==
    ASSUME TypeOK, StartsApart, LastAllowed, NEW n \in open, NEW m, FullMessage(n, m)
    PROVE  LastAllowed'
<1>0. WordsFit
  BY Fits DEF TypeOK, FullMessage
<1>1. /\ outbox' = outbox \cup [createdAt : {n}, word : NewWords]
      /\ heard' = heard /\ subject' = subject
      /\ NewWords = {} => /\ reversed' = reversed
                          /\ blurred' = (blurred \/ (InBothLists /\ ~InBothLists'))
      /\ NewWords # {} => /\ reversed' = (\E r \in outbox : n < r.createdAt)
                          /\ blurred' = (\E v, w \in NewWords : v # w)
  BY DEF FullMessage, Stamp
<1>2. CASE NewWords = {}
  <2>1. outbox' = outbox
    BY <1>1, <1>2
  <2>2. LastWords' = LastWords
    BY <1>1, <2>1 DEF LastWords
  <2>3. Allowed \subseteq Allowed'
    BY <1>0, <1>1, <1>2 DEF WordsFit, Allowed, TypeOK
  <2> QED BY <1>1, <1>2, <2>2, <2>3 DEF LastAllowed
<1>3. CASE NewWords # {}
  <2> SUFFICES ASSUME ~reversed' PROVE LastWords' \subseteq Allowed'
    BY DEF LastAllowed
  <2>1. n \in Nat /\ \A r \in outbox : r.createdAt \in Nat /\ r.createdAt < n
    <3>1. n \in Nat /\ \A r \in outbox : r.createdAt \in Nat
      BY EventsAssumption DEF TypeOK, OutboxRow, Starts
    <3>2. \A r \in outbox : r.createdAt # n
      BY DEF StartsApart
    <3>3. \A r \in outbox : ~(n < r.createdAt)
      BY <1>1, <1>3
    <3> QED BY <3>1, <3>2, <3>3
  <2>2. \A r \in outbox' : r \in outbox \/ (r.createdAt = n /\ r.word \in NewWords)
    BY <1>1
  <2>3. PICK w \in NewWords : TRUE
    BY <1>3
  <2>4. [createdAt |-> n, word |-> w] \in outbox'
    BY <1>1, <2>3
  <2>5. LastWords' \subseteq NewWords
    <3>1. \A s \in outbox' : (\A d \in outbox' : d.createdAt <= s.createdAt) => s.word \in NewWords
      BY <2>1, <2>2, <2>4
    <3> QED BY <2>4, <3>1 DEF LastWords
  <2>6. NewWords \subseteq Allowed'
    BY <1>0, <1>1, <1>3 DEF WordsFit, Allowed
  <2> QED BY <2>5, <2>6
<1> QED BY <1>2, <1>3

LEMMA PublishLast ==
    ASSUME TypeOK, LastAllowed, NEW r \in outbox, Publish(r) \/ PublishInVain(r)
    PROVE  LastAllowed'
<1>1. Allowed' = Allowed /\ reversed' = reversed
  BY SaysStays DEF Publish, PublishInVain, factionVars, historyVars
<1>2. CASE PublishInVain(r)
  <2>1. outbox' = outbox /\ outbox # {}
    BY <1>2 DEF PublishInVain
  <2>2. LastWords' = LastWords
    BY <2>1 DEF LastWords
  <2> QED BY <1>1, <2>2 DEF LastAllowed
<1>3. CASE Publish(r)
  <2>1. /\ outbox' = outbox \ {r} /\ heard' = r.word
        /\ \A s \in outbox : r.createdAt <= s.createdAt
    BY <1>3 DEF Publish
  <2>2. \A s \in outbox : s.createdAt \in Nat
    BY EventsAssumption DEF TypeOK, OutboxRow, Starts
  <2>3. LastWords' \subseteq LastWords
    <3>1. CASE outbox' = {}
      <4>1. \A d \in outbox : d = r
        BY <2>1, <3>1
      <4>2. r.word \in LastWords
        BY <2>2, <4>1 DEF LastWords
      <4> QED BY <2>1, <3>1, <4>2 DEF LastWords
    <3>2. CASE outbox' # {}
      <4>1. \A s \in outbox' : (\A d \in outbox' : d.createdAt <= s.createdAt) =>
                s \in outbox /\ \A d \in outbox : d.createdAt <= s.createdAt
        BY <2>1, <2>2
      <4> QED BY <3>2, <4>1 DEF LastWords
    <3> QED BY <3>1, <3>2
  <2> QED BY <1>1, <2>3 DEF LastAllowed
<1> QED BY <1>2, <1>3

LEMMA EventsInvInit == Init => EventsInv
<1> SUFFICES ASSUME Init PROVE EventsInv
  OBVIOUS
<1>1. TypeOK /\ StartsApart
  BY InitType DEF Init, StartsApart
<1>2. LastWords = {heard} /\ ~blurred
  BY DEF Init, LastWords
<1>3. heard \in Says
  <2>1. CASE subject.kind = "presence"
    BY <2>1 DEF Init, Says
  <2>2. CASE subject.kind = "state"
    BY <2>2 DEF Init, Says, StatesOfSubject, Row, NoStates, Listed
  <2>3. CASE subject.kind = "conflict"
    BY <2>3, LifecycleValues DEF Init, Says, ConflictOfSubject, Row
  <2> QED BY <1>1, <2>1, <2>2, <2>3, SubjectsOfKinds DEF TypeOK
<1> QED BY <1>1, <1>2, <1>3 DEF EventsInv, LastAllowed, Allowed

LEMMA EventsInvNext == EventsInv /\ [Next]_vars => EventsInv'
<1> SUFFICES ASSUME EventsInv, [Next]_vars PROVE StartsApart' /\ LastAllowed'
  BY TypeNext DEF EventsInv
<1>0. TypeOK /\ StartsApart /\ LastAllowed
  BY DEF EventsInv
<1>1. ASSUME NEW n \in Starts, BeginMessage(n) PROVE StartsApart' /\ LastAllowed'
  <2>1. /\ open' = open \cup {n} /\ outbox' = outbox /\ heard' = heard /\ reversed' = reversed
        /\ UNCHANGED <<present, states, conflicts, subject, blurred>>
    BY <1>1 DEF BeginMessage, factionVars, historyVars
  <2>2. \A r \in outbox : r.createdAt < n /\ r.createdAt \in Nat /\ n \in Nat
    BY <1>0, <1>1, EventsAssumption DEF BeginMessage, Later, TypeOK, OutboxRow, Starts
  <2>3. StartsApart'
    BY <1>0, <2>1, <2>2 DEF StartsApart
  <2> QED BY <1>0, <2>1, <2>3, SaysStays DEF LastAllowed, LastWords
<1>2. ASSUME NEW n \in open, AbortMessage(n) PROVE StartsApart' /\ LastAllowed'
  <2>1. /\ open' = open \ {n} /\ outbox' = outbox /\ heard' = heard /\ reversed' = reversed
        /\ UNCHANGED <<present, states, conflicts, subject, blurred>>
    BY <1>2 DEF AbortMessage, factionVars, historyVars
  <2> QED BY <1>0, <2>1, SaysStays DEF LastAllowed, LastWords, StartsApart
<1>3. ASSUME NEW n \in open, NEW m \in Messages, FullMessage(n, m)
      PROVE  StartsApart' /\ LastAllowed'
  <2>1. /\ outbox' = outbox \cup [createdAt : {n}, word : NewWords]
        /\ open' = open \ {n}
    BY <1>3 DEF FullMessage, Stamp
  <2> QED BY <1>0, <1>3, <2>1, CommitLast DEF StartsApart
<1>4. ASSUME NEW f \in Factions, FactionSeen(f) PROVE StartsApart' /\ LastAllowed'
  <2>1. /\ UNCHANGED <<open, outbox, heard, reversed>>
        /\ UNCHANGED <<present, states, conflicts, subject, blurred>>
    BY <1>4 DEF FactionSeen, historyVars
  <2> QED BY <1>0, <2>1, SaysStays DEF LastAllowed, LastWords, StartsApart
<1>5. ASSUME NEW r \in outbox, Publish(r) \/ PublishInVain(r) PROVE StartsApart' /\ LastAllowed'
  <2>1. outbox' \subseteq outbox /\ open' = open
    BY <1>5 DEF Publish, PublishInVain
  <2> QED BY <1>0, <1>5, <2>1, PublishLast DEF StartsApart
<1>6. CASE UNCHANGED vars
  <2>1. /\ UNCHANGED <<open, outbox, heard, reversed>>
        /\ UNCHANGED <<present, states, conflicts, subject, blurred>>
    BY <1>6 DEF vars, factionVars, historyVars
  <2> QED BY <1>0, <2>1, SaysStays DEF LastAllowed, LastWords, StartsApart
<1> QED BY <1>1, <1>2, <1>3, <1>4, <1>5, <1>6 DEF Next

LEMMA EventsInvAlways == Spec => []EventsInv
BY EventsInvInit, EventsInvNext, PTL DEF Spec

\* Once published, the last word about every presence, state and conflict is what
\* the tables say, except after a commit out of turn or a blur; and a blur never
\* hides that a state or conflict has ended, or what a presence is (the triggers,
\* ORDER BY createdAt of the relay, upsertSystem).
THEOREM EventsTellTheTablesAlways == Spec => []EventsTellTheTables
<1>1. EventsInv => EventsTellTheTables
  BY DEF EventsInv, LastAllowed, LastWords, Allowed, EventsTellTheTables
<1> QED BY <1>1, EventsInvAlways, PTL

\* No transaction tells a word that came last already (the comparisons of the
\* triggers), except after a commit out of turn or a blur.
THEOREM EveryWordIsNewsAlways == Spec => EveryWordIsNews
<1>1. EventsInv /\ [Next]_vars => [~reversed /\ ~blurred => NewWords \cap LastWords = {}]_vars
  <2> SUFFICES ASSUME EventsInv, Next, ~reversed, ~blurred PROVE NewWords \cap LastWords = {}
    OBVIOUS
  <2>1. subject' = subject
    BY DEF Next, BeginMessage, AbortMessage, FullMessage, FactionSeen, Publish, PublishInVain
  <2>2. WordsFit
    BY <2>1, Fits DEF EventsInv, TypeOK
  <2> QED BY <2>2 DEF WordsFit, EventsInv, LastAllowed, Allowed
<1> QED BY <1>1, EventsInvAlways, PTL DEF Spec, EveryWordIsNews

-----------------------------------------------------------------------------
(* Stations: the inductive invariant.                                      *)

Tables == UNION {[S -> StationRow] : S \in SUBSET Ids}
Writes == UNION {[S -> StationRow \cup {Gone}] : S \in SUBSET Ids}
Txs == [phase : Phases, m : StationMessages, stronghold : BOOLEAN, own : Writes,
        first : Found \cup {Nothing}, second : Found \cup {Nothing}]

\* What a transaction with the writes own sees of the committed rows rs.
View(rs, own) ==
    [i \in {j \in DOMAIN rs \cup DOMAIN own : j \in DOMAIN own => own[j] # Gone} |->
        IF i \in DOMAIN own THEN own[i] ELSE rs[i]]

UniqueKeys(rs) == \A i, j \in DOMAIN rs : i # j => ~Sharing(rs[i], rs[j])

\* Two jobs have different systems, have written different rows and no key twice.
Apart(t, u) ==
    /\ t.m.system # u.m.system
    /\ DOMAIN t.own \cap DOMAIN u.own = {}
    /\ \A i \in DOMAIN t.own, j \in DOMAIN u.own :
          t.own[i] # Gone /\ u.own[j] # Gone => ~Sharing(t.own[i], u.own[j])

\* A job stores rows of its own system only.
InSystem(t) == \A i \in DOMAIN t.own : t.own[i] # Gone => t.own[i].system = t.m.system

\* A message that says so decides on the stronghold, and only a job with a
\* station to store reaches the statements that store it.
Purposeful(t) ==
    /\ t.m.power \in {"Stronghold", "Other"} => t.stronghold = (t.m.power = "Stronghold")
    /\ t.phase = "powerplay" => TakesCarriers(t.m)
    /\ t.phase \notin {"powerplay", "commit"} =>
          t.m.name # Undefined /\ (IsCarrier(t.m) => t.stronghold)

\* The carriers that have not strayed.
LoyalIn(rs, s) == {i \in CarriersIn(rs, s) : ~rs[i].strayed}

\* In a system that is no stronghold a job sees none of them, after it has deleted
\* those that were there.
SeesNoCarriers(t, rs) ==
    t.phase # "powerplay" /\ ~t.stronghold => LoyalIn(rs, t.m.system) = {}
LoyalInStrongholds == \A s \in Systems : LoyalIn(rows, s) # {} => s \in stronghold

ByMarket(t, rs) == {i \in DOMAIN rs : rs[i].market = t.m.market}
ByName(t, rs) == {i \in DOMAIN rs : rs[i].system = t.m.system /\ rs[i].name = NameOf(t.m)}
Only(f) == IF f = Nothing THEN {} ELSE {f.id}

\* What a job has found by name stays all there is: no other job stores rows of
\* its system.
NamesFound(t, rs) ==
    /\ t.phase \in {"second", "delete", "put"} /\ IsCarrier(t.m) =>
          CarriersIn(rs, t.m.system) \subseteq Only(t.first)
    /\ t.phase \in {"delete", "put"} /\ ~IsCarrier(t.m) =>
          ByName(t, rs) \subseteq Only(t.second)

\* What it has found by market id stays so unless a commit came in between ...
MarketFound(t, rs) ==
    /\ t.phase \in {"second", "delete", "put"} /\ ~IsCarrier(t.m) =>
          ByMarket(t, rs) \subseteq Only(t.first)
    /\ t.phase \in {"delete", "put"} /\ IsCarrier(t.m) =>
          ByMarket(t, rs) \subseteq Only(t.second)

\* ... and so do the rows it has found.
Same(f, rs) == f # Nothing => f.id \in DOMAIN rs /\ rs[f.id] = f.row
RowsFound(t, rs) ==
    /\ t.phase \in {"second", "delete"} => Same(t.first, rs)
    /\ t.phase = "delete" => Same(t.second, rs)
    /\ t.phase = "put" => Same(Survivor(t), rs) /\ ToDelete(t) \cap DOMAIN rs = {}

\* A job that is about to commit has written its station.
Written(t) ==
    /\ t.phase = "commit" /\ t.m.name # Undefined /\ (IsCarrier(t.m) => t.stronghold)
    => \E i \in DOMAIN t.own : t.own[i] # Gone /\ IsStored(t, t.own[i])

\* The job t over the committed rows rs; race tells whether it has been raced.
Job(t, rs, race) ==
    /\ UniqueKeys(View(rs, t.own))
    /\ InSystem(t)
    /\ Purposeful(t)
    /\ SeesNoCarriers(t, View(rs, t.own))
    /\ NamesFound(t, View(rs, t.own))
    /\ ~race => MarketFound(t, View(rs, t.own)) /\ RowsFound(t, View(rs, t.own)) /\ Written(t)

StationsInv ==
    /\ rows \in Tables
    /\ UniqueKeys(rows)
    /\ stronghold \subseteq Systems
    /\ LoyalInStrongholds
    /\ tx \in [Workers -> Txs \cup {Idle}]
    /\ raced \in [Workers -> BOOLEAN]
    /\ begun \in 0 .. MaxJobs
    /\ \A w \in Workers : Active(w) => Job(tx[w], rows, raced[w])
    /\ \A v, w \in Workers : v # w /\ Active(v) /\ Active(w) => Apart(tx[v], tx[w])

-----------------------------------------------------------------------------
(* Shapes.                                                                 *)

LEMMA StationKinds == Gone \notin StationRow /\ Nothing \notin Found /\ Idle \notin Txs
<1>1. Gone \notin StationRow
  BY DEF Gone, StationRow
<1>2. Nothing \notin Found
  BY DEF Nothing, Found
<1>3. Idle \notin Txs
  BY DEF Idle, Txs, Phases
<1> QED BY <1>1, <1>2, <1>3

LEMMA TableType ==
    ASSUME NEW rs
    PROVE  rs \in Tables <=> /\ rs = [i \in DOMAIN rs |-> rs[i]]
                             /\ DOMAIN rs \subseteq Ids
                             /\ \A i \in DOMAIN rs : rs[i] \in StationRow
<1>1. ASSUME rs \in Tables
      PROVE  /\ rs = [i \in DOMAIN rs |-> rs[i]] /\ DOMAIN rs \subseteq Ids
             /\ \A i \in DOMAIN rs : rs[i] \in StationRow
  <2>1. PICK S \in SUBSET Ids : rs \in [S -> StationRow]
    BY <1>1 DEF Tables
  <2> QED BY <2>1
<1>2. ASSUME rs = [i \in DOMAIN rs |-> rs[i]], DOMAIN rs \subseteq Ids,
             \A i \in DOMAIN rs : rs[i] \in StationRow
      PROVE  rs \in Tables
  <2>1. rs \in [DOMAIN rs -> StationRow]
    BY <1>2
  <2> QED BY <1>2, <2>1 DEF Tables
<1> QED BY <1>1, <1>2

LEMMA WritesType ==
    ASSUME NEW own
    PROVE  own \in Writes <=> /\ own = [i \in DOMAIN own |-> own[i]]
                              /\ DOMAIN own \subseteq Ids
                              /\ \A i \in DOMAIN own : own[i] # Gone => own[i] \in StationRow
<1>1. ASSUME own \in Writes
      PROVE  /\ own = [i \in DOMAIN own |-> own[i]] /\ DOMAIN own \subseteq Ids
             /\ \A i \in DOMAIN own : own[i] # Gone => own[i] \in StationRow
  <2>1. PICK S \in SUBSET Ids : own \in [S -> StationRow \cup {Gone}]
    BY <1>1 DEF Writes
  <2> QED BY <2>1
<1>2. ASSUME own = [i \in DOMAIN own |-> own[i]], DOMAIN own \subseteq Ids,
             \A i \in DOMAIN own : own[i] # Gone => own[i] \in StationRow
      PROVE  own \in Writes
  <2>1. own \in [DOMAIN own -> StationRow \cup {Gone}]
    BY <1>2
  <2> QED BY <1>2, <2>1 DEF Writes
<1> QED BY <1>1, <1>2

LEMMA ViewAt ==
    ASSUME NEW rs, NEW own
    PROVE  /\ View(rs, own) = [i \in DOMAIN View(rs, own) |-> View(rs, own)[i]]
           /\ \A i : i \in DOMAIN View(rs, own) <=>
                     \/ i \in DOMAIN own /\ own[i] # Gone
                     \/ i \notin DOMAIN own /\ i \in DOMAIN rs
           /\ \A i \in DOMAIN View(rs, own) :
                  View(rs, own)[i] = IF i \in DOMAIN own THEN own[i] ELSE rs[i]
BY DEF View

LEMMA ViewType ==
    ASSUME NEW rs \in Tables, NEW own \in Writes
    PROVE  View(rs, own) \in Tables
<1> DEFINE vs == View(rs, own)
<1>1. DOMAIN vs \subseteq Ids
  BY ViewAt, TableType, WritesType
<1>2. \A i \in DOMAIN vs : vs[i] \in StationRow
  BY ViewAt, TableType, WritesType
<1>3. vs = [i \in DOMAIN vs |-> vs[i]]
  BY ViewAt
<1> HIDE DEF vs
<1> QED BY <1>1, <1>2, <1>3, TableType DEF vs

\* The writes own with the rows new over them.
Over(own, new) == [i \in DOMAIN new \cup DOMAIN own |->
                      IF i \in DOMAIN new THEN new[i] ELSE own[i]]

LEMMA OverAt ==
    ASSUME NEW own, NEW new
    PROVE  /\ \A i : i \in DOMAIN Over(own, new) <=> i \in DOMAIN own \/ i \in DOMAIN new
           /\ \A i \in DOMAIN Over(own, new) :
                 Over(own, new)[i] = IF i \in DOMAIN new THEN new[i] ELSE own[i]
BY DEF Over

LEMMA OverType ==
    ASSUME NEW own \in Writes, NEW new \in Writes
    PROVE  Over(own, new) \in Writes
<1> DEFINE o == Over(own, new)
<1>1. o = [i \in DOMAIN o |-> o[i]]
  BY DEF Over
<1>2. DOMAIN o \subseteq Ids
  BY OverAt, WritesType
<1>3. \A i \in DOMAIN o : o[i] # Gone => o[i] \in StationRow
  <2> TAKE i \in DOMAIN o
  <2>1. CASE i \in DOMAIN new
    <3>1. o[i] = new[i]
      BY <2>1, OverAt
    <3>2. new[i] # Gone => new[i] \in StationRow
      BY <2>1, WritesType
    <3> QED BY <3>1, <3>2
  <2>2. CASE i \in DOMAIN own \ DOMAIN new
    <3>1. o[i] = own[i]
      BY <2>2, OverAt
    <3>2. own[i] # Gone => own[i] \in StationRow
      BY <2>2, WritesType
    <3> QED BY <3>1, <3>2
  <2> QED BY <2>1, <2>2, OverAt
<1> HIDE DEF o
<1> QED BY <1>1, <1>2, <1>3, WritesType DEF o

\* What deleting the rows D, or storing one, does to what a job has written and
\* to what it sees.
Deleting(D) == [i \in D |-> Gone]
Storing(id, row) == [i \in {id} |-> row]

LEMMA DeletingType ==
    ASSUME NEW D \in SUBSET Ids
    PROVE  Deleting(D) \in Writes
BY WritesType DEF Deleting

LEMMA StoringType ==
    ASSUME NEW id \in Ids, NEW row \in StationRow
    PROVE  Storing(id, row) \in Writes
BY WritesType DEF Storing

LEMMA WritesDeleted ==
    ASSUME NEW own, NEW D
    PROVE  /\ \A i : i \in DOMAIN Over(own, Deleting(D)) <=> i \in DOMAIN own \/ i \in D
           /\ \A i \in DOMAIN Over(own, Deleting(D)) :
                 Over(own, Deleting(D))[i] # Gone =>
                     i \in DOMAIN own /\ Over(own, Deleting(D))[i] = own[i]
BY DEF Over, Deleting

LEMMA WritesStored ==
    ASSUME NEW own, NEW id, NEW row
    PROVE  /\ \A i : i \in DOMAIN Over(own, Storing(id, row)) <=> i \in DOMAIN own \/ i = id
           /\ Over(own, Storing(id, row))[id] = row
           /\ \A i \in DOMAIN own \ {id} : Over(own, Storing(id, row))[i] = own[i]
BY DEF Over, Storing

LEMMA ViewDeleted ==
    ASSUME NEW rs, NEW own, NEW D
    PROVE  /\ \A i : i \in DOMAIN View(rs, Over(own, Deleting(D))) <=>
                     i \in DOMAIN View(rs, own) /\ i \notin D
           /\ \A i \in DOMAIN View(rs, Over(own, Deleting(D))) :
                 View(rs, Over(own, Deleting(D)))[i] = View(rs, own)[i]
BY DEF View, Over, Deleting

LEMMA ViewStored ==
    ASSUME NEW rs, NEW own, NEW id, NEW row, row # Gone
    PROVE  /\ \A i : i \in DOMAIN View(rs, Over(own, Storing(id, row))) <=>
                     i \in DOMAIN View(rs, own) \/ i = id
           /\ View(rs, Over(own, Storing(id, row)))[id] = row
           /\ \A i \in DOMAIN View(rs, own) \ {id} :
                 View(rs, Over(own, Storing(id, row)))[i] = View(rs, own)[i]
BY DEF View, Over, Storing

LEMMA VisibleIsView ==
    \A w : Visible(w) = View(rows, tx[w].own)
BY DEF Visible, View

\* What is known of a message.
LEMMA MessageFacts ==
    ASSUME NEW m \in StationMessages
    PROVE  /\ m.event \in {"Docked", "Location"} /\ m.system \in Systems
           /\ m.market \in Markets \cup {Undefined} /\ m.name \in Names \cup {Undefined}
           /\ m.services \in Services \cup {Undefined} /\ m.traits \in SUBSET Traits
           /\ m.power \in {"Stronghold", "Other", "Unmapped", Undefined}
           /\ IsCarrier(m) \in BOOLEAN
           /\ m.name # Undefined => m.market \in Markets /\ NameOf(m) \in Names
           /\ m.event = "Location" => ~IsCarrier(m)
<1>1. /\ m.event \in {"Docked", "Location"} /\ m.system \in Systems
      /\ m.market \in Markets \cup {Undefined} /\ m.name \in Names \cup {Undefined}
      /\ m.services \in Services \cup {Undefined} /\ m.traits \in SUBSET Traits
      /\ m.power \in {"Stronghold", "Other", "Unmapped", Undefined}
  BY DEF StationMessages
<1>2. /\ m.name = Undefined <=> m.market = Undefined
      /\ m.event = "Location" => "pads" \notin m.traits
  BY DEF StationMessages
<1>3. IsCarrier(m) \in BOOLEAN
  BY DEF IsCarrier
<1>4. m.name # Undefined => m.market \in Markets /\ NameOf(m) \in Names
  BY <1>1, <1>2 DEF NameOf, Names, CarrierNames
<1>5. m.event = "Location" => ~IsCarrier(m)
  BY <1>2 DEF IsCarrier, Traits
<1> QED BY <1>1, <1>3, <1>4, <1>5

\* What is known of a row: a carrier that has not strayed has the canonical name.
LEMMA RowFacts ==
    ASSUME NEW row \in StationRow
    PROVE  /\ row.market \in Markets /\ row.system \in Systems /\ row.name \in Names
           /\ row.traits \in SUBSET Traits
           /\ row.services \in Services \cup {"empty"}
           /\ row.servicesV2 \in Services \cup {"empty"}
           /\ IsCarrier(row) /\ ~row.strayed => row.name = Canonical
BY DEF StationRow

LEMMA TxFacts ==
    ASSUME NEW t \in Txs
    PROVE  /\ t.phase \in Phases /\ t.m \in StationMessages /\ t.stronghold \in BOOLEAN
           /\ t.own \in Writes
           /\ t.first \in Found \cup {Nothing} /\ t.second \in Found \cup {Nothing}
BY DEF Txs

\* The fields the code of one statement sets.
LEMMA TxSteps ==
    ASSUME NEW t \in Txs, NEW phase \in Phases
    PROVE  /\ [t EXCEPT !.phase = phase] \in Txs
           /\ \A own \in Writes : [t EXCEPT !.own = own, !.phase = phase] \in Txs
           /\ \A f \in Found \cup {Nothing} :
                 /\ [t EXCEPT !.phase = phase, !.first = f] \in Txs
                 /\ [t EXCEPT !.second = f, !.phase = phase] \in Txs
BY DEF Txs

-----------------------------------------------------------------------------
(* Unique keys.                                                            *)

LEMMA SharingBothWays == \A a, b : Sharing(a, b) <=> Sharing(b, a)
BY DEF Sharing

LEMMA ApartBothWays == \A t, u : Apart(t, u) <=> Apart(u, t)
BY SharingBothWays DEF Apart

\* Fewer rows are no more carriers and no more rows with a key.
LEMMA FewerRows ==
    ASSUME NEW vs, NEW us, DOMAIN us \subseteq DOMAIN vs,
           \A i \in DOMAIN us : us[i] = vs[i]
    PROVE  /\ UniqueKeys(vs) => UniqueKeys(us)
           /\ \A s : /\ CarriersIn(us, s) \subseteq CarriersIn(vs, s)
                     /\ LoyalIn(us, s) \subseteq LoyalIn(vs, s)
           /\ \A t : ByMarket(t, us) \subseteq ByMarket(t, vs)
           /\ \A t : ByName(t, us) \subseteq ByName(t, vs)
<1>1. UniqueKeys(vs) => UniqueKeys(us)
  BY DEF UniqueKeys
<1>2. \A s : /\ CarriersIn(us, s) \subseteq CarriersIn(vs, s)
             /\ LoyalIn(us, s) \subseteq LoyalIn(vs, s)
  BY DEF CarriersIn, LoyalIn
<1>3. \A t : ByMarket(t, us) \subseteq ByMarket(t, vs)
  BY DEF ByMarket
<1>4. \A t : ByName(t, us) \subseteq ByName(t, vs)
  BY DEF ByName
<1> QED BY <1>1, <1>2, <1>3, <1>4

\* A row stored under a key that no other has.
LEMMA OneMoreRow ==
    ASSUME NEW vs, NEW us, NEW id, UniqueKeys(vs),
           \A i : i \in DOMAIN us <=> i \in DOMAIN vs \/ i = id,
           \A i \in DOMAIN vs \ {id} : us[i] = vs[i],
           \A i \in DOMAIN vs \ {id} : ~Sharing(vs[i], us[id])
    PROVE  UniqueKeys(us)
<1> SUFFICES ASSUME NEW i \in DOMAIN us, NEW j \in DOMAIN us, i # j
             PROVE  ~Sharing(us[i], us[j])
  BY DEF UniqueKeys
<1>1. CASE i = id
  BY <1>1, SharingBothWays
<1>2. CASE j = id
  BY <1>2
<1>3. CASE i # id /\ j # id
  BY <1>3 DEF UniqueKeys
<1> QED BY <1>1, <1>2, <1>3

\* What is found among the rows vs.
Pick(vs, ids) == IF ids = {} THEN Nothing
                 ELSE LET i == CHOOSE i \in ids : TRUE IN [id |-> i, row |-> vs[i]]

LEMMA FindIsPick == \A w, ids : Find(w, ids) = Pick(View(rows, tx[w].own), ids)
BY VisibleIsView DEF Find, Pick

LEMMA PickFinds ==
    ASSUME NEW vs \in Tables, UniqueKeys(vs), NEW ids \in SUBSET DOMAIN vs,
           \A i, j \in ids : Sharing(vs[i], vs[j])
    PROVE  /\ Pick(vs, ids) \in Found \cup {Nothing}
           /\ ids \subseteq Only(Pick(vs, ids))
           /\ Same(Pick(vs, ids), vs)
<1>1. CASE ids = {}
  BY <1>1 DEF Pick, Only, Same
<1>2. CASE ids # {}
  <2> DEFINE c == CHOOSE i \in ids : TRUE
             f == [id |-> c, row |-> vs[c]]
  <2>1. c \in ids
    BY <1>2
  <2>2. Pick(vs, ids) = f
    BY <1>2 DEF Pick
  <2> HIDE DEF c
  <2>3. c \in DOMAIN vs /\ c \in Ids /\ vs[c] \in StationRow
    BY <2>1, TableType
  <2>4. f \in Found /\ f # Nothing
    BY <2>3, StationKinds DEF Found
  <2>5. \A i \in ids : i = c
    BY <2>1 DEF UniqueKeys
  <2> QED BY <2>2, <2>3, <2>4, <2>5 DEF Only, Same
<1> QED BY <1>1, <1>2

LEMMA KeysShared ==
    ASSUME NEW vs, NEW t
    PROVE  /\ \A i, j \in ByMarket(t, vs) : Sharing(vs[i], vs[j])
           /\ \A i, j \in ByName(t, vs) : Sharing(vs[i], vs[j])
           /\ \A i, j \in CarriersIn(vs, t.m.system) : Sharing(vs[i], vs[j])
           /\ ByMarket(t, vs) \in SUBSET DOMAIN vs
           /\ ByName(t, vs) \in SUBSET DOMAIN vs
           /\ CarriersIn(vs, t.m.system) \in SUBSET DOMAIN vs
BY DEF ByMarket, ByName, CarriersIn, Sharing

-----------------------------------------------------------------------------
(* The statements of one job.                                              *)

Begun(m, isStronghold) ==
    [phase |-> IF TakesCarriers(m) THEN "powerplay" ELSE AfterPowerplay(m, isStronghold),
     m |-> m, stronghold |-> isStronghold,
     own |-> [i \in {} |-> Gone], first |-> Nothing, second |-> Nothing]

LEMMA AfterPowerplayFacts ==
    ASSUME NEW m, NEW s \in BOOLEAN
    PROVE  /\ AfterPowerplay(m, s) \in {"commit", "first"}
           /\ AfterPowerplay(m, s) = "first" <=> m.name # Undefined /\ (IsCarrier(m) => s)
BY DEF AfterPowerplay

LEMMA BeginJob ==
    ASSUME NEW rs \in Tables, UniqueKeys(rs), NEW m \in StationMessages, NEW s \in BOOLEAN,
           NEW race \in BOOLEAN,
           m.power \in {"Stronghold", "Other"} => s = (m.power = "Stronghold"),
           m.power = Undefined /\ ~s => LoyalIn(rs, m.system) = {}
    PROVE  Begun(m, s) \in Txs /\ Job(Begun(m, s), rs, race)
<1> DEFINE t == Begun(m, s)
           none == [i \in {} |-> Gone]
           vs == View(rs, none)
<1>1. t.m = m /\ t.stronghold = s /\ t.own = none /\ t.first = Nothing /\ t.second = Nothing
  BY DEF Begun
<1>2. t.phase = IF TakesCarriers(m) THEN "powerplay" ELSE AfterPowerplay(m, s)
  BY DEF Begun
<1>3. none \in Writes /\ DOMAIN none = {}
  BY DEF Writes
<1>4. t \in Txs
  <2>1. t.phase \in Phases
    BY <1>2, AfterPowerplayFacts DEF Phases
  <2> QED BY <1>3, <2>1 DEF Begun, Txs
<1>5. DOMAIN vs \subseteq DOMAIN rs /\ \A i \in DOMAIN vs : vs[i] = rs[i]
  BY <1>3, ViewAt
<1> HIDE DEF t, none, vs
<1>6. UniqueKeys(vs) /\ LoyalIn(vs, m.system) \subseteq LoyalIn(rs, m.system)
  BY <1>5, FewerRows
<1>7. InSystem(t)
  BY <1>1, <1>3 DEF InSystem
<1>8. Purposeful(t)
  BY <1>1, <1>2, AfterPowerplayFacts DEF Purposeful
<1>9. SeesNoCarriers(t, vs)
  <2> SUFFICES ASSUME t.phase # "powerplay", ~s
               PROVE  LoyalIn(vs, m.system) = {}
    BY <1>1 DEF SeesNoCarriers
  <2>1. m.power = Undefined
    BY <1>2, MessageFacts DEF TakesCarriers
  <2> QED BY <1>6, <2>1
<1>10. t.phase \in {"powerplay", "commit", "first"}
  BY <1>2, AfterPowerplayFacts
<1>11. NamesFound(t, vs) /\ MarketFound(t, vs) /\ RowsFound(t, vs)
  BY <1>10 DEF NamesFound, MarketFound, RowsFound
<1>12. Written(t)
  <2> SUFFICES ASSUME t.phase = "commit", m.name # Undefined, IsCarrier(m) => s
               PROVE  FALSE
    BY <1>1 DEF Written
  <2> QED BY <1>2, AfterPowerplayFacts
<1> QED
  BY <1>1, <1>4, <1>6, <1>7, <1>8, <1>9, <1>11, <1>12 DEF Job, t, vs

\* deleteStrongholdCarriersInSystem leaves none.
LEMMA PowerplayJob ==
    ASSUME NEW rs \in Tables, NEW t \in Txs, NEW race \in BOOLEAN, Job(t, rs, race),
           t.phase = "powerplay"
    PROVE  LET gone == Deleting(CarriersIn(View(rs, t.own), t.m.system))
               u == [t EXCEPT !.own = Over(t.own, gone), !.phase = AfterPowerplay(t.m, t.stronghold)] IN
           u \in Txs /\ Job(u, rs, race)
<1> DEFINE vs == View(rs, t.own)
           C == CarriersIn(vs, t.m.system)
           gone == Deleting(C)
           own == Over(t.own, gone)
           u == [t EXCEPT !.own = own, !.phase = AfterPowerplay(t.m, t.stronghold)]
           us == View(rs, own)
<1>1. AfterPowerplay(t.m, t.stronghold) \in {"commit", "first"}
  BY AfterPowerplayFacts, TxFacts
<1>2. gone \in Writes
  <2>1. C \subseteq Ids
    BY ViewType, TableType, TxFacts DEF CarriersIn
  <2> HIDE DEF C
  <2> QED BY <2>1, DeletingType
<1>3. own \in Writes
  BY <1>2, OverType, TxFacts
<1>4. u \in Txs
  BY <1>1, <1>3, TxSteps DEF Phases
<1>5. /\ u.m = t.m /\ u.stronghold = t.stronghold /\ u.own = own
      /\ u.phase = AfterPowerplay(t.m, t.stronghold)
  BY TxFacts DEF Txs
<1>6. /\ \A i : i \in DOMAIN us <=> i \in DOMAIN vs /\ i \notin C
      /\ \A i \in DOMAIN us : us[i] = vs[i]
  BY ViewDeleted
<1>7. \A i \in DOMAIN own : own[i] # Gone => i \in DOMAIN t.own /\ own[i] = t.own[i]
  BY WritesDeleted
<1> HIDE DEF gone, own, u, us
<1>8. UniqueKeys(us)
  BY <1>6, FewerRows DEF Job
<1>9. InSystem(u)
  BY <1>5, <1>7 DEF InSystem, Job
<1>11. Purposeful(u)
  BY <1>1, <1>5, AfterPowerplayFacts, TxFacts DEF Purposeful, Job
<1>12. SeesNoCarriers(u, us)
  <2>1. CarriersIn(us, t.m.system) \subseteq C
    BY <1>6, FewerRows
  <2>2. CarriersIn(us, t.m.system) \cap C = {}
    BY <1>6 DEF CarriersIn
  <2> HIDE DEF C
  <2> QED BY <1>5, <2>1, <2>2 DEF SeesNoCarriers, LoyalIn
<1>13. NamesFound(u, us) /\ MarketFound(u, us) /\ RowsFound(u, us)
  BY <1>1, <1>5 DEF NamesFound, MarketFound, RowsFound
<1>14. Written(u)
  <2> SUFFICES ASSUME u.phase = "commit", t.m.name # Undefined, IsCarrier(t.m) => t.stronghold
               PROVE  FALSE
    BY <1>5 DEF Written
  <2> QED BY <1>5, AfterPowerplayFacts, TxFacts
<1> QED
  BY <1>4, <1>5, <1>8, <1>9, <1>11, <1>12, <1>13, <1>14 DEF Job, u, us, own, gone

\* The first SELECT.
LEMMA ReadFirstJob ==
    ASSUME NEW rs \in Tables, NEW t \in Txs, NEW race \in BOOLEAN, Job(t, rs, race),
           t.phase = "first"
    PROVE  LET vs == View(rs, t.own)
               f == Pick(vs, IF IsCarrier(t.m) THEN CarriersIn(vs, t.m.system) ELSE ByMarket(t, vs))
               u == [t EXCEPT !.phase = "second", !.first = f] IN
           u \in Txs /\ Job(u, rs, race)
<1> DEFINE vs == View(rs, t.own)
           ids == IF IsCarrier(t.m) THEN CarriersIn(vs, t.m.system) ELSE ByMarket(t, vs)
           f == Pick(vs, ids)
           u == [t EXCEPT !.phase = "second", !.first = f]
<1>1. vs \in Tables /\ UniqueKeys(vs)
  BY ViewType, TxFacts DEF Job
<1> HIDE DEF vs
<1>2. ids \in SUBSET DOMAIN vs /\ \A i, j \in ids : Sharing(vs[i], vs[j])
  BY KeysShared
<1> HIDE DEF ids
<1>3. f \in Found \cup {Nothing} /\ ids \subseteq Only(f) /\ Same(f, vs)
  BY <1>1, <1>2, PickFinds
<1> HIDE DEF f
<1>4. u \in Txs
  BY <1>3, TxSteps DEF Phases
<1>5. /\ u.m = t.m /\ u.stronghold = t.stronghold /\ u.own = t.own
      /\ u.phase = "second" /\ u.first = f
  BY TxFacts DEF Txs
<1> HIDE DEF u
<1>6. InSystem(u) /\ Purposeful(u) /\ SeesNoCarriers(u, vs)
  BY <1>5 DEF InSystem, Purposeful, SeesNoCarriers, Job, vs
<1>7. NamesFound(u, vs)
  BY <1>3, <1>5 DEF NamesFound, ids
<1>8. MarketFound(u, vs)
  BY <1>3, <1>5 DEF MarketFound, ids, ByMarket
<1>9. RowsFound(u, vs)
  BY <1>3, <1>5 DEF RowsFound
<1>10. Written(u)
  BY <1>5 DEF Written
<1> QED
  BY <1>1, <1>4, <1>5, <1>6, <1>7, <1>8, <1>9, <1>10 DEF Job, u, vs, f, ids

\* The second SELECT; nothing may be left to delete.
LEMMA ReadSecondJob ==
    ASSUME NEW rs \in Tables, NEW t \in Txs, NEW race \in BOOLEAN, Job(t, rs, race),
           t.phase = "second", NEW phase \in {"delete", "put"}
    PROVE  LET vs == View(rs, t.own)
               f == Pick(vs, IF IsCarrier(t.m) THEN ByMarket(t, vs) ELSE ByName(t, vs))
               u == [t EXCEPT !.second = f, !.phase = phase] IN
           /\ u \in Txs
           /\ (phase = "put" => ToDelete(u) = {}) => Job(u, rs, race)
<1> DEFINE vs == View(rs, t.own)
           ids == IF IsCarrier(t.m) THEN ByMarket(t, vs) ELSE ByName(t, vs)
           f == Pick(vs, ids)
           u == [t EXCEPT !.second = f, !.phase = phase]
<1>1. vs \in Tables /\ UniqueKeys(vs)
  BY ViewType, TxFacts DEF Job
<1> HIDE DEF vs
<1>2. ids \in SUBSET DOMAIN vs /\ \A i, j \in ids : Sharing(vs[i], vs[j])
  BY KeysShared
<1> HIDE DEF ids
<1>3. f \in Found \cup {Nothing} /\ ids \subseteq Only(f) /\ Same(f, vs)
  BY <1>1, <1>2, PickFinds
<1> HIDE DEF f
<1>4. u \in Txs
  BY <1>3, TxSteps DEF Phases
<1>5. /\ u.m = t.m /\ u.stronghold = t.stronghold /\ u.own = t.own
      /\ u.phase = phase /\ u.first = t.first /\ u.second = f
  BY TxFacts DEF Txs
<1> HIDE DEF u
<1>6. InSystem(u) /\ Purposeful(u) /\ SeesNoCarriers(u, vs)
  BY <1>5 DEF InSystem, Purposeful, SeesNoCarriers, Job, vs
<1>7. NamesFound(u, vs)
  BY <1>3, <1>5 DEF NamesFound, ids, Job, ByName, vs
<1>8. ~race => MarketFound(u, vs)
  BY <1>3, <1>5 DEF MarketFound, ids, ByMarket, Job, vs
<1>9. ASSUME phase = "put" => ToDelete(u) = {}, ~race
      PROVE  RowsFound(u, vs)
  <2>1. Same(u.first, vs) /\ Same(u.second, vs)
    BY <1>3, <1>5, <1>9 DEF RowsFound, Job, vs
  <2>2. Same(Survivor(u), vs)
    BY <2>1 DEF Survivor
  <2> QED BY <1>5, <1>9, <2>1, <2>2 DEF RowsFound
<1>10. Written(u)
  BY <1>5 DEF Written
<1>11. (phase = "put" => ToDelete(u) = {}) => Job(u, rs, race)
  BY <1>1, <1>5, <1>6, <1>7, <1>8, <1>9, <1>10 DEF Job, vs
<1> QED
  BY <1>4, <1>11 DEF u, vs, f, ids

\* The row to update is not the one to delete.
LEMMA SurvivorStays ==
    ASSUME NEW t, Survivor(t) # Nothing
    PROVE  Survivor(t).id \notin ToDelete(t)
BY DEF Survivor, ToDelete

\* deleteStationById
LEMMA DeleteJob ==
    ASSUME NEW rs \in Tables, NEW t \in Txs, NEW race \in BOOLEAN, Job(t, rs, race),
           t.phase = "delete"
    PROVE  LET gone == Deleting(ToDelete(t) \cap DOMAIN View(rs, t.own))
               u == [t EXCEPT !.own = Over(t.own, gone), !.phase = "put"] IN
           u \in Txs /\ Job(u, rs, race)
<1> DEFINE vs == View(rs, t.own)
           D == ToDelete(t) \cap DOMAIN vs
           gone == Deleting(D)
           own == Over(t.own, gone)
           u == [t EXCEPT !.own = own, !.phase = "put"]
           us == View(rs, own)
<1>1. own \in Writes
  <2>1. D \in SUBSET Ids
    BY ViewType, TableType, TxFacts
  <2> HIDE DEF D
  <2> QED BY <2>1, DeletingType, OverType, TxFacts
<1>2. u \in Txs
  BY <1>1, TxSteps DEF Phases
<1>3. /\ u.m = t.m /\ u.stronghold = t.stronghold /\ u.own = own
      /\ u.phase = "put" /\ u.first = t.first /\ u.second = t.second
  BY TxFacts DEF Txs
<1>4. /\ \A i : i \in DOMAIN us <=> i \in DOMAIN vs /\ i \notin D
      /\ \A i \in DOMAIN us : us[i] = vs[i]
  BY ViewDeleted
<1>5. \A i \in DOMAIN own : own[i] # Gone => i \in DOMAIN t.own /\ own[i] = t.own[i]
  BY WritesDeleted
<1>6. ToDelete(t) \cap DOMAIN us = {}
  BY <1>4
<1> HIDE DEF D, gone, own, u, us
<1>7. /\ UniqueKeys(us)
      /\ CarriersIn(us, t.m.system) \subseteq CarriersIn(vs, t.m.system)
      /\ LoyalIn(us, t.m.system) \subseteq LoyalIn(vs, t.m.system)
      /\ ByMarket(t, us) \subseteq ByMarket(t, vs) /\ ByName(t, us) \subseteq ByName(t, vs)
  BY <1>4, FewerRows DEF Job
<1> HIDE DEF vs
<1>8. InSystem(u)
  BY <1>3, <1>5 DEF InSystem, Job
<1>9. Purposeful(u)
  BY <1>3 DEF Purposeful, Job
<1>10. SeesNoCarriers(u, us)
  BY <1>3, <1>7 DEF SeesNoCarriers, Job, vs
<1>11. ByMarket(u, us) = ByMarket(t, us) /\ ByName(u, us) = ByName(t, us)
  BY <1>3 DEF ByMarket, ByName
<1>12. NamesFound(u, us)
  BY <1>3, <1>7, <1>11 DEF NamesFound, Job, vs
<1>13. ~race => MarketFound(u, us)
  BY <1>3, <1>7, <1>11 DEF MarketFound, Job, vs
<1>14. Survivor(u) = Survivor(t) /\ ToDelete(u) = ToDelete(t)
  BY <1>3 DEF Survivor, ToDelete
<1>15. ASSUME ~race
       PROVE  RowsFound(u, us)
  <2>1. Same(t.first, vs) /\ Same(t.second, vs)
    BY <1>15 DEF RowsFound, Job, vs
  <2>2. Same(Survivor(t), vs)
    BY <2>1 DEF Survivor
  <2>3. Same(Survivor(t), us)
    BY <1>4, <2>2, SurvivorStays DEF Same, D
  <2> QED BY <1>3, <1>6, <1>14, <2>3 DEF RowsFound
<1>16. Written(u)
  BY <1>3 DEF Written
<1>17. Job(u, rs, race)
  BY <1>3, <1>7, <1>8, <1>9, <1>10, <1>12, <1>13, <1>15, <1>16 DEF Job, us
<1> QED BY <1>2, <1>17 DEF u, own, gone, D, vs

\* What the last statement of a job writes over the rows vs it sees.
Stores(t, vs, id, row) ==
    \/ Survivor(t) = Nothing /\ id \in Ids /\ row = NewRow(t.m)
    \/ /\ Survivor(t) # Nothing /\ id = Survivor(t).id /\ id \in DOMAIN vs
       /\ row = Updated(t, vs[id], Survivor(t).row)

LEMMA SurvivorType ==
    ASSUME NEW t \in Txs, Survivor(t) # Nothing
    PROVE  Survivor(t).id \in Ids /\ Survivor(t).row \in StationRow
BY TxFacts DEF Survivor, Found

LEMMA StoresRow ==
    ASSUME NEW vs \in Tables, NEW t \in Txs, t.m.name # Undefined,
           NEW id, NEW row, Stores(t, vs, id, row)
    PROVE  /\ id \in Ids /\ row \in StationRow
           /\ row.market = t.m.market /\ row.system = t.m.system /\ row.name = NameOf(t.m)
           /\ IsCarrier(row) /\ ~row.strayed => IsCarrier(t.m) \/ t.stronghold
<1>1. /\ t.m.market \in Markets /\ t.m.system \in Systems /\ NameOf(t.m) \in Names
      /\ t.m.services \in Services \cup {Undefined} /\ t.m.traits \in SUBSET Traits
      /\ t.m.event \in {"Docked", "Location"}
      /\ t.m.event = "Location" => ~IsCarrier(t.m)
  BY TxFacts, MessageFacts
<1>2. CASE Survivor(t) = Nothing
  <2>1. id \in Ids /\ row = NewRow(t.m)
    BY <1>2 DEF Stores
  <2>2. row.name = NameOf(t.m) /\ row.traits = t.m.traits /\ ~row.strayed
    BY <2>1 DEF NewRow
  <2>3. IsCarrier(row) => IsCarrier(t.m) /\ row.name = Canonical
    BY <2>2 DEF IsCarrier, NameOf
  <2> QED BY <1>1, <2>1, <2>2, <2>3 DEF NewRow, StationRow
<1>3. CASE Survivor(t) # Nothing
  <2>1. id = Survivor(t).id /\ id \in DOMAIN vs /\ row = Updated(t, vs[id], Survivor(t).row)
    BY <1>3 DEF Stores
  <2>2. id \in Ids /\ vs[id] \in StationRow /\ Survivor(t).row \in StationRow
    BY <1>3, <2>1, SurvivorType, TableType
  <2> DEFINE now == vs[id]
             read == Survivor(t).row
  <2>3. row = Updated(t, now, read) /\ now \in StationRow /\ read \in StationRow
    BY <2>1, <2>2
  <2> HIDE DEF now, read
  <2>4. /\ now.traits \in SUBSET Traits
        /\ now.services \in Services \cup {"empty"} /\ now.servicesV2 \in Services \cup {"empty"}
        /\ read.services \in Services \cup {"empty"}
    BY <2>3, RowFacts
  <2> DEFINE s == IF t.m.services = Undefined THEN now.services ELSE t.m.services
             v == IF t.m.services # Undefined THEN t.m.services
                  ELSE IF Backfills(read) THEN read.services ELSE now.servicesV2
             c == TraitsOf(t.m, now)
             z == Strays(t, now)
  <2>5. s \in Services \cup {"empty"} /\ v \in Services \cup {"empty"}
    BY <1>1, <2>4
  <2>6. c \in SUBSET Traits
    BY <1>1, <2>4 DEF TraitsOf
  <2>7. z \in BOOLEAN
    BY DEF Strays
  <2>8. row = [market |-> t.m.market, system |-> t.m.system, name |-> NameOf(t.m), traits |-> c,
               services |-> s, servicesV2 |-> v, strayed |-> z]
    BY <2>3 DEF Updated
  <2>9. CASE t.m.event = "Docked"
    <3>1. c = t.m.traits /\ ~z
      BY <2>9 DEF TraitsOf, Strays
    <3> HIDE DEF c, s, v, z
    <3>2. IsCarrier(row) => IsCarrier(t.m) /\ row.name = Canonical
      BY <2>8, <3>1 DEF IsCarrier, NameOf
    <3>3. row.strayed = z /\ row.name = NameOf(t.m)
      BY <2>8
    <3> QED BY <1>1, <2>2, <2>5, <2>6, <2>7, <2>8, <3>1, <3>2, <3>3 DEF StationRow
  <2>10. CASE t.m.event = "Location"
    <3>1. NameOf(t.m) = t.m.name
      BY <1>1, <2>10 DEF NameOf
    <3>2. z <=> t.m.name \in CarrierNames /\ c = Traits /\ (t.m.name # Canonical \/ ~t.stronghold)
      BY <2>10 DEF Strays
    <3> HIDE DEF c, s, v, z
    <3>3. IsCarrier(row) <=> t.m.name \in CarrierNames /\ c = Traits
      BY <2>8, <3>1 DEF IsCarrier
    <3>4. row.strayed = z /\ row.name = t.m.name
      BY <2>8, <3>1
    <3> QED BY <1>1, <2>2, <2>5, <2>6, <2>7, <2>8, <3>2, <3>3, <3>4 DEF StationRow
  <2> QED BY <1>1, <2>9, <2>10
<1> QED BY <1>2, <1>3

\* What a job stores is its station, if the row it updates is the one it read.
LEMMA StoresStation ==
    ASSUME NEW vs \in Tables, NEW t \in Txs, t.m.name # Undefined,
           NEW id, NEW row, Stores(t, vs, id, row), Same(Survivor(t), vs)
    PROVE  IsStored(t, row)
<1>1. row.market = t.m.market /\ row.system = t.m.system /\ row.name = NameOf(t.m)
  BY StoresRow
<1>2. CASE Survivor(t) = Nothing
  <2>1. row = NewRow(t.m)
    BY <1>2 DEF Stores
  <2> QED BY <1>1, <2>1 DEF NewRow, IsStored
<1>3. CASE Survivor(t) # Nothing
  <2> DEFINE read == Survivor(t).row
  <2>1. row = Updated(t, read, read)
    BY <1>3 DEF Stores, Same
  <2> HIDE DEF read
  <2>2. /\ row.traits \ {"pads"} = t.m.traits \ {"pads"}
        /\ t.m.event = "Docked" => row.traits = t.m.traits
    <3>1. row.traits = TraitsOf(t.m, read)
      BY <2>1 DEF Updated
    <3>2. read.traits \in SUBSET Traits
      BY <1>3, SurvivorType, RowFacts DEF read
    <3> QED BY <3>1, <3>2 DEF TraitsOf, Traits
  <2>3. t.m.services # Undefined => row.services = t.m.services /\ row.servicesV2 = row.services
    BY <2>1 DEF Updated
  <2>4. t.m.services = Undefined => row.servicesV2 = row.services \/ OutOfStep(read)
    BY <2>1 DEF Updated, Backfills, OutOfStep
  <2> QED BY <1>1, <1>3, <2>2, <2>3, <2>4 DEF IsStored, read
<1> QED BY <1>2, <1>3

\* updateStationById and insertStation, under keys that are free.
LEMMA PutJob ==
    ASSUME NEW rs \in Tables, NEW t \in Txs, NEW race \in BOOLEAN, Job(t, rs, race),
           t.phase = "put", NEW id, NEW row, Stores(t, View(rs, t.own), id, row),
           \A i \in DOMAIN View(rs, t.own) \ {id} : ~Sharing(View(rs, t.own)[i], row)
    PROVE  LET u == [t EXCEPT !.own = Over(t.own, Storing(id, row)), !.phase = "commit"] IN
           u \in Txs /\ Job(u, rs, race)
<1> DEFINE vs == View(rs, t.own)
           own == Over(t.own, Storing(id, row))
           u == [t EXCEPT !.own = own, !.phase = "commit"]
           us == View(rs, own)
<1>1. t.m.name # Undefined /\ (IsCarrier(t.m) => t.stronghold)
  BY DEF Job, Purposeful
<1>2. /\ id \in Ids /\ row \in StationRow /\ row # Gone
      /\ row.market = t.m.market /\ row.system = t.m.system /\ row.name = NameOf(t.m)
      /\ IsCarrier(row) /\ ~row.strayed => t.stronghold
  BY <1>1, StoresRow, ViewType, TxFacts, StationKinds
<1>3. own \in Writes
  BY <1>2, StoringType, OverType, TxFacts
<1>4. u \in Txs
  BY <1>3, TxSteps DEF Phases
<1>5. /\ u.m = t.m /\ u.stronghold = t.stronghold /\ u.own = own
      /\ u.phase = "commit" /\ u.first = t.first /\ u.second = t.second
  BY TxFacts DEF Txs
<1>6. /\ \A i : i \in DOMAIN us <=> i \in DOMAIN vs \/ i = id
      /\ us[id] = row
      /\ \A i \in DOMAIN vs \ {id} : us[i] = vs[i]
  BY <1>2, ViewStored
<1>7. /\ \A i : i \in DOMAIN own <=> i \in DOMAIN t.own \/ i = id
      /\ own[id] = row
      /\ \A i \in DOMAIN t.own \ {id} : own[i] = t.own[i]
  BY WritesStored
<1>8. UniqueKeys(vs)
  BY DEF Job
<1>9. \A i \in DOMAIN vs \ {id} : ~Sharing(vs[i], row)
  OBVIOUS
<1> HIDE DEF own, u, us
<1>10. SeesNoCarriers(t, vs)
  BY DEF Job
<1>11. ~race => Same(Survivor(t), vs)
  BY DEF Job, RowsFound
<1>12. ~race => IsStored(t, row)
  BY <1>1, <1>11, StoresStation, ViewType, TxFacts
<1> HIDE DEF vs
<1>13. UniqueKeys(us)
  BY <1>6, <1>8, <1>9, OneMoreRow
<1>14. InSystem(u)
  BY <1>2, <1>5, <1>7 DEF InSystem, Job
<1>15. Purposeful(u)
  BY <1>5 DEF Purposeful, Job
<1>16. SeesNoCarriers(u, us)
  <2> SUFFICES ASSUME ~t.stronghold, NEW i \in LoyalIn(us, t.m.system)
               PROVE  FALSE
    BY <1>5 DEF SeesNoCarriers
  <2>1. LoyalIn(vs, t.m.system) = {}
    BY <1>10 DEF SeesNoCarriers
  <2>2. i = id
    BY <1>6, <2>1 DEF CarriersIn, LoyalIn
  <2>3. IsCarrier(row) /\ ~row.strayed
    BY <1>6, <2>2 DEF CarriersIn, LoyalIn, IsCarrier, CarrierNames
  <2> QED BY <1>2, <2>3
<1>17. NamesFound(u, us) /\ MarketFound(u, us) /\ RowsFound(u, us)
  BY <1>5 DEF NamesFound, MarketFound, RowsFound
<1>18. Survivor(u) = Survivor(t)
  BY <1>5 DEF Survivor
<1>19. ~race => Written(u)
  BY <1>2, <1>5, <1>7, <1>12, <1>18 DEF Written, IsStored
<1>20. Job(u, rs, race)
  BY <1>5, <1>13, <1>14, <1>15, <1>16, <1>17, <1>19 DEF Job, us
<1> QED BY <1>4, <1>20 DEF u, own

\* The survivor is gone: a commit came in between.
LEMMA SkipJob ==
    ASSUME NEW rs \in Tables, NEW t \in Txs, NEW race \in BOOLEAN, Job(t, rs, race),
           t.phase = "put", Survivor(t) # Nothing, Survivor(t).id \notin DOMAIN View(rs, t.own)
    PROVE  LET u == [t EXCEPT !.phase = "commit"] IN u \in Txs /\ Job(u, rs, race)
<1> DEFINE vs == View(rs, t.own)
           u == [t EXCEPT !.phase = "commit"]
<1>1. race
  BY DEF Job, RowsFound, Same
<1>2. u \in Txs
  BY TxSteps DEF Phases
<1>3. /\ u.m = t.m /\ u.stronghold = t.stronghold /\ u.own = t.own /\ u.phase = "commit"
  BY TxFacts DEF Txs
<1> HIDE DEF u
<1>4. InSystem(u) /\ Purposeful(u) /\ SeesNoCarriers(u, vs) /\ NamesFound(u, vs)
  BY <1>3 DEF Job, InSystem, Purposeful, SeesNoCarriers, NamesFound
<1>5. Job(u, rs, race)
  BY <1>1, <1>3, <1>4 DEF Job
<1> QED BY <1>2, <1>5 DEF u

\* The only row that can keep a job that has not been raced from storing its
\* station is an incomplete one with a carrier's name.
LEMMA KeysFree ==
    ASSUME NEW rs \in Tables, NEW t \in Txs, Job(t, rs, FALSE), t.phase = "put",
           NEW id, NEW row, Stores(t, View(rs, t.own), id, row),
           NEW i \in DOMAIN View(rs, t.own) \ {id}, Sharing(View(rs, t.own)[i], row)
    PROVE  /\ IsCarrier(t.m) /\ View(rs, t.own)[i].name = Canonical
           /\ ~IsCarrier(View(rs, t.own)[i])
<1> DEFINE vs == View(rs, t.own)
<1>1. vs \in Tables /\ vs[i] \in StationRow
  BY ViewType, TxFacts, TableType
<1>2. t.m.name # Undefined
  BY DEF Job, Purposeful
<1>3. row.market = t.m.market /\ row.system = t.m.system /\ row.name = NameOf(t.m)
  BY <1>1, <1>2, StoresRow
<1>4. NamesFound(t, vs) /\ MarketFound(t, vs) /\ RowsFound(t, vs)
  BY DEF Job
<1>5. Survivor(t) # Nothing => id = Survivor(t).id
  BY DEF Stores
<1>6. i \in DOMAIN vs /\ i # id /\ Sharing(vs[i], row)
  OBVIOUS
<1> HIDE DEF vs
<1>7. i \notin ToDelete(t)
  BY <1>4, <1>6 DEF RowsFound
<1>8. CASE IsCarrier(t.m)
  <2>1. i \notin ByMarket(t, vs)
    <3> SUFFICES ASSUME i \in Only(t.second)
                 PROVE  FALSE
      BY <1>4, <1>8 DEF MarketFound
    <3>1. t.second # Nothing /\ i = t.second.id
      BY DEF Only
    <3>2. t.first # Nothing /\ t.first.id = i
      BY <1>7, <1>8, <3>1 DEF ToDelete
    <3> QED BY <1>5, <1>6, <1>8, <3>2 DEF Survivor
  <2>2. vs[i].system = t.m.system /\ vs[i].name = Canonical
    BY <1>3, <1>6, <1>8, <2>1 DEF Sharing, ByMarket, NameOf
  <2>3. i \notin CarriersIn(vs, t.m.system)
    BY <1>4, <1>5, <1>6, <1>8 DEF NamesFound, Only, Survivor
  <2> QED BY <1>6, <1>8, <2>2, <2>3 DEF CarriersIn, IsCarrier, vs
<1>9. CASE ~IsCarrier(t.m)
  <2>1. i \notin ByName(t, vs)
    BY <1>4, <1>5, <1>6, <1>9 DEF NamesFound, Only, Survivor
  <2>2. i \in ByMarket(t, vs)
    BY <1>3, <1>6, <2>1 DEF Sharing, ByMarket, ByName
  <2>3. t.first # Nothing /\ i = t.first.id
    BY <1>4, <1>9, <2>2 DEF MarketFound, Only
  <2>4. CASE t.second = Nothing
    BY <1>5, <1>6, <1>9, <2>3, <2>4 DEF Survivor
  <2>5. CASE t.second # Nothing
    <3>1. t.second.id = i
      BY <1>7, <1>9, <2>3, <2>5 DEF ToDelete
    <3> QED BY <1>5, <1>6, <1>9, <2>5, <3>1 DEF Survivor
  <2> QED BY <2>4, <2>5
<1> QED BY <1>8, <1>9

-----------------------------------------------------------------------------
(* A commit of t, as the job u sees it.                                    *)

DisturbedBy(t, u) ==
    /\ u.phase \in {"second", "delete", "put"}
    /\ \/ DOMAIN t.own \cap {f.id : f \in {u.first, u.second} \ {Nothing}} # {}
       \/ \E i \in DOMAIN t.own : t.own[i] # Gone /\ t.own[i].market = u.m.market

\* The rows u sees afterwards: those of t and those it saw before.
LEMMA ViewCommitted ==
    ASSUME NEW rs, NEW own, NEW mine, DOMAIN own \cap DOMAIN mine = {}
    PROVE  /\ \A i : i \in DOMAIN View(View(rs, own), mine) <=>
                     \/ i \in DOMAIN own /\ own[i] # Gone
                     \/ i \notin DOMAIN own /\ i \in DOMAIN View(rs, mine)
           /\ \A i \in DOMAIN View(View(rs, own), mine) :
                  View(View(rs, own), mine)[i] =
                      IF i \in DOMAIN own THEN own[i] ELSE View(rs, mine)[i]
BY DEF View

LEMMA KeysCommitted ==
    ASSUME NEW rs, NEW t, NEW u, Apart(t, u),
           UniqueKeys(View(rs, t.own)), UniqueKeys(View(rs, u.own))
    PROVE  UniqueKeys(View(View(rs, t.own), u.own))
<1> DEFINE vs == View(rs, u.own)
           ts == View(rs, t.own)
           us == View(ts, u.own)
<1>1. DOMAIN t.own \cap DOMAIN u.own = {}
  BY DEF Apart
<1>2. \A i \in DOMAIN us : \/ i \in DOMAIN ts /\ us[i] = ts[i]
                           \/ i \in DOMAIN u.own /\ u.own[i] # Gone /\ us[i] = u.own[i]
  BY ViewAt
<1>3. \A i \in DOMAIN us : \/ i \in DOMAIN vs /\ us[i] = vs[i]
                           \/ i \in DOMAIN t.own /\ t.own[i] # Gone /\ us[i] = t.own[i]
  BY <1>1, ViewCommitted
<1>4. \A i, j \in DOMAIN us :
         i \in DOMAIN t.own /\ t.own[i] # Gone /\ us[i] = t.own[i]
         /\ j \in DOMAIN u.own /\ u.own[j] # Gone /\ us[j] = u.own[j] => ~Sharing(us[i], us[j])
  BY DEF Apart
<1> HIDE DEF vs, ts, us
<1> SUFFICES ASSUME NEW i \in DOMAIN us, NEW j \in DOMAIN us, i # j
             PROVE  ~Sharing(us[i], us[j])
  BY DEF UniqueKeys, us, ts
<1>5. CASE i \in DOMAIN ts /\ us[i] = ts[i] /\ j \in DOMAIN ts /\ us[j] = ts[j]
  BY <1>5 DEF UniqueKeys, ts
<1>6. CASE i \in DOMAIN vs /\ us[i] = vs[i] /\ j \in DOMAIN vs /\ us[j] = vs[j]
  BY <1>6 DEF UniqueKeys, vs
<1>7. CASE ~(i \in DOMAIN ts /\ us[i] = ts[i]) /\ ~(j \in DOMAIN vs /\ us[j] = vs[j])
  BY <1>2, <1>3, <1>4, <1>7, SharingBothWays
<1>8. CASE ~(j \in DOMAIN ts /\ us[j] = ts[j]) /\ ~(i \in DOMAIN vs /\ us[i] = vs[i])
  BY <1>2, <1>3, <1>4, <1>8, SharingBothWays
<1>9. CASE ~(i \in DOMAIN ts /\ us[i] = ts[i]) /\ ~(i \in DOMAIN vs /\ us[i] = vs[i])
  BY <1>1, <1>2, <1>3, <1>9
<1>10. CASE ~(j \in DOMAIN ts /\ us[j] = ts[j]) /\ ~(j \in DOMAIN vs /\ us[j] = vs[j])
  BY <1>1, <1>2, <1>3, <1>10
<1> QED BY <1>5, <1>6, <1>7, <1>8, <1>9, <1>10

LEMMA CommitJob ==
    ASSUME NEW rs \in Tables, NEW t \in Txs, InSystem(t), UniqueKeys(View(rs, t.own)),
           NEW u \in Txs, NEW race \in BOOLEAN, Job(u, rs, race), Apart(t, u),
           NEW now \in BOOLEAN, race \/ DisturbedBy(t, u) => now
    PROVE  Job(u, View(rs, t.own), now)
<1> DEFINE vs == View(rs, u.own)
           us == View(View(rs, t.own), u.own)
<1>1. t.m.system # u.m.system /\ DOMAIN t.own \cap DOMAIN u.own = {}
  BY DEF Apart
<1>2. /\ \A i : i \in DOMAIN us <=> \/ i \in DOMAIN t.own /\ t.own[i] # Gone
                                    \/ i \notin DOMAIN t.own /\ i \in DOMAIN vs
      /\ \A i \in DOMAIN us : us[i] = IF i \in DOMAIN t.own THEN t.own[i] ELSE vs[i]
  BY <1>1, ViewCommitted
<1>3. UniqueKeys(us)
  BY KeysCommitted DEF Job
<1> HIDE DEF vs, us
<1>4. \A i \in DOMAIN us : us[i].system = u.m.system => i \in DOMAIN vs /\ us[i] = vs[i]
  BY <1>1, <1>2 DEF InSystem
<1>5. /\ CarriersIn(us, u.m.system) \subseteq CarriersIn(vs, u.m.system)
      /\ LoyalIn(us, u.m.system) \subseteq LoyalIn(vs, u.m.system)
      /\ ByName(u, us) \subseteq ByName(u, vs)
  BY <1>4 DEF CarriersIn, LoyalIn, ByName
<1>6. SeesNoCarriers(u, us)
  BY <1>5 DEF SeesNoCarriers, Job, vs
<1>7. NamesFound(u, us)
  BY <1>5 DEF NamesFound, Job, vs
<1>8. ASSUME ~now
      PROVE  MarketFound(u, us) /\ RowsFound(u, us) /\ Written(u)
  <2>1. ~race /\ MarketFound(u, vs) /\ RowsFound(u, vs) /\ Written(u)
    BY <1>8 DEF Job, vs
  <2>2. CASE u.phase \notin {"second", "delete", "put"}
    BY <2>1, <2>2 DEF MarketFound, RowsFound
  <2>3. CASE u.phase \in {"second", "delete", "put"}
    <3>1. /\ DOMAIN t.own \cap {f.id : f \in {u.first, u.second} \ {Nothing}} = {}
          /\ \A i \in DOMAIN t.own : t.own[i] # Gone => t.own[i].market # u.m.market
      BY <1>8, <2>3 DEF DisturbedBy
    <3>2. ByMarket(u, us) \subseteq ByMarket(u, vs)
      BY <1>2, <3>1 DEF ByMarket
    <3>3. MarketFound(u, us)
      BY <2>1, <3>2 DEF MarketFound
    <3>4. ASSUME NEW f \in {u.first, u.second}
          PROVE  /\ Same(f, vs) => Same(f, us)
                 /\ f # Nothing => f.id \notin DOMAIN t.own
      <4>1. f # Nothing => f.id \notin DOMAIN t.own
        BY <3>1
      <4> QED BY <1>2, <4>1 DEF Same
    <3>5. Survivor(u) \in {u.first, u.second}
      BY DEF Survivor
    <3>6. ToDelete(u) \cap DOMAIN t.own = {}
      BY <3>4 DEF ToDelete
    <3>7. ToDelete(u) \cap DOMAIN vs = {} => ToDelete(u) \cap DOMAIN us = {}
      BY <1>2, <3>6
    <3>8. RowsFound(u, us)
      BY <2>1, <3>4, <3>5, <3>7 DEF RowsFound
    <3> QED BY <2>1, <3>3, <3>8
  <2> QED BY <2>2, <2>3
<1>9. InSystem(u) /\ Purposeful(u)
  BY DEF Job
<1> QED BY <1>3, <1>6, <1>7, <1>8, <1>9 DEF Job, us

-----------------------------------------------------------------------------
(* Two jobs stay apart.                                                    *)

LEMMA ApartMoved ==
    ASSUME NEW t, NEW u, NEW v, Apart(t, v), u.m = t.m, u.own = t.own
    PROVE  Apart(u, v)
BY DEF Apart

LEMMA ApartDeleted ==
    ASSUME NEW t, NEW u, NEW v, Apart(t, v), NEW D, D \cap DOMAIN v.own = {},
           u.m = t.m, u.own = Over(t.own, Deleting(D))
    PROVE  Apart(u, v)
<1>1. /\ \A i : i \in DOMAIN u.own <=> i \in DOMAIN t.own \/ i \in D
      /\ \A i \in DOMAIN u.own :
            u.own[i] # Gone => i \in DOMAIN t.own /\ u.own[i] = t.own[i]
  BY WritesDeleted
<1> QED BY <1>1 DEF Apart

LEMMA ApartStored ==
    ASSUME NEW t, NEW u, NEW v, Apart(t, v), NEW id, id \notin DOMAIN v.own, NEW row,
           \A i \in DOMAIN v.own : v.own[i] # Gone => ~Sharing(v.own[i], row),
           u.m = t.m, u.own = Over(t.own, Storing(id, row))
    PROVE  Apart(u, v)
<1>1. /\ \A i : i \in DOMAIN u.own <=> i \in DOMAIN t.own \/ i = id
      /\ u.own[id] = row
      /\ \A i \in DOMAIN t.own \ {id} : u.own[i] = t.own[i]
  BY WritesStored
<1>2. u.m.system # v.m.system /\ DOMAIN u.own \cap DOMAIN v.own = {}
  BY <1>1 DEF Apart
<1>3. ASSUME NEW i \in DOMAIN u.own, NEW j \in DOMAIN v.own, u.own[i] # Gone, v.own[j] # Gone
      PROVE  ~Sharing(u.own[i], v.own[j])
  <2>1. CASE i = id
    BY <1>1, <1>3, <2>1, SharingBothWays
  <2>2. CASE i # id
    BY <1>1, <1>3, <2>2 DEF Apart
  <2> QED BY <2>1, <2>2
<1> QED BY <1>2, <1>3 DEF Apart

-----------------------------------------------------------------------------
(* The actions.                                                            *)

LEMMA ActiveTx ==
    ASSUME tx \in [Workers -> Txs \cup {Idle}], NEW w \in Workers
    PROVE  Active(w) <=> tx[w] \in Txs
BY StationKinds DEF Active

\* One job becomes t, and nothing else changes but the number of those begun.
LEMMA OneJob ==
    ASSUME StationsInv, NEW w \in Workers, NEW t \in Txs, Become(w, t),
           UNCHANGED <<rows, stronghold, raced>>, begun' \in 0 .. MaxJobs,
           Job(t, rows, raced[w]),
           \A v \in Workers : v # w /\ Active(v) => Apart(t, tx[v])
    PROVE  StationsInv'
<1>1. tx \in [Workers -> Txs \cup {Idle}]
  BY DEF StationsInv
<1>2. /\ tx' \in [Workers -> Txs \cup {Idle}] /\ tx'[w] = t
      /\ \A v \in Workers : v # w => tx'[v] = tx[v]
  BY <1>1 DEF Become
<1>3. \A v \in Workers : v # w => (Active(v)' <=> Active(v))
  BY <1>2 DEF Active
<1>4. LoyalInStrongholds'
  BY DEF StationsInv, LoyalInStrongholds, CarriersIn, LoyalIn
<1>5. ASSUME NEW v \in Workers, Active(v)'
      PROVE  Job(tx'[v], rows, raced[v])
  <2>1. CASE v = w
    BY <1>2, <2>1
  <2>2. CASE v # w
    BY <1>2, <1>3, <1>5, <2>2 DEF StationsInv
  <2> QED BY <2>1, <2>2
<1>6. ASSUME NEW v \in Workers, NEW u \in Workers, v # u, Active(v)', Active(u)'
      PROVE  Apart(tx'[v], tx'[u])
  <2>1. CASE v = w
    BY <1>2, <1>3, <1>6, <2>1
  <2>2. CASE u = w
    BY <1>2, <1>3, <1>6, <2>2, ApartBothWays
  <2>3. CASE v # w /\ u # w
    BY <1>2, <1>3, <1>6, <2>3 DEF StationsInv
  <2> QED BY <2>1, <2>2, <2>3
<1>7. rows' = rows /\ stronghold' = stronghold /\ raced' = raced
  OBVIOUS
<1>8. rows \in Tables /\ UniqueKeys(rows) /\ stronghold \subseteq Systems
      /\ raced \in [Workers -> BOOLEAN]
  BY DEF StationsInv
<1> QED BY <1>2, <1>4, <1>5, <1>6, <1>7, <1>8 DEF StationsInv

LEMMA EmptyApart ==
    ASSUME NEW t, NEW v, t.m.system # v.m.system, DOMAIN t.own = {}
    PROVE  Apart(t, v)
BY DEF Apart

LEMMA BeginNext ==
    ASSUME StationsInv, NEW w \in Workers, NEW m \in StationMessages, Begin(w, m)
    PROVE  StationsInv'
<1> DEFINE s == IF m.power \in {"Stronghold", "Other"} THEN m.power = "Stronghold"
                ELSE m.system \in stronghold
<1>1. Become(w, Begun(m, s))
  BY DEF Begin, Begun
<1>2. s \in BOOLEAN
  <2>1. CASE m.power \notin {"Stronghold", "Other"}
    <3>1. s = (m.system \in stronghold)
      BY <2>1, Zenon
    <3>2. (m.system \in stronghold) \in BOOLEAN
      OBVIOUS
    <3> HIDE DEF s
    <3> QED BY <3>1, <3>2, Zenon
  <2>2. CASE m.power \in {"Stronghold", "Other"}
    <3>1. s = (m.power = "Stronghold")
      BY <2>2, Zenon
    <3>2. (m.power = "Stronghold") \in BOOLEAN
      OBVIOUS
    <3> HIDE DEF s
    <3> QED BY <3>1, <3>2, Zenon
  <2> QED BY <2>1, <2>2
<1>3. m.power \in {"Stronghold", "Other"} => s = (m.power = "Stronghold")
  BY ZenonT(30)
<1>4. m.power = Undefined /\ ~s => LoyalIn(rows, m.system) = {}
  BY MessageFacts, StationsAssumption DEF StationsInv, LoyalInStrongholds
<1> HIDE DEF s
<1>5. rows \in Tables /\ UniqueKeys(rows) /\ raced[w] \in BOOLEAN /\ begun \in 0 .. MaxJobs
  BY DEF StationsInv
<1>6. Begun(m, s) \in Txs /\ Job(Begun(m, s), rows, raced[w])
  BY <1>2, <1>3, <1>4, <1>5, BeginJob
<1>7. ASSUME NEW v \in Workers, v # w, Active(v)
      PROVE  Apart(Begun(m, s), tx[v])
  <2>1. tx[v].m.system # m.system
    BY <1>7 DEF Begin, Others
  <2>2. Begun(m, s).m = m /\ DOMAIN Begun(m, s).own = {}
    BY DEF Begun
  <2> QED BY <2>1, <2>2, EmptyApart
<1>8. begun' \in 0 .. MaxJobs
  BY <1>5, StationsAssumption DEF Begin
<1>9. UNCHANGED <<rows, stronghold, raced>>
  BY DEF Begin
<1> QED BY <1>1, <1>6, <1>7, <1>8, <1>9, OneJob

\* What the invariant says of an active job.
LEMMA JobFacts ==
    ASSUME StationsInv, NEW w \in Workers, Active(w)
    PROVE  /\ rows \in Tables /\ tx[w] \in Txs /\ raced[w] \in BOOLEAN
           /\ Job(tx[w], rows, raced[w])
           /\ \A v \in Workers : v # w /\ Active(v) => Apart(tx[w], tx[v])
           /\ begun \in 0 .. MaxJobs
BY ActiveTx DEF StationsInv

LEMMA NoWait ==
    ASSUME NEW w \in Workers, NEW ids, ~Waits(w, ids), NEW v \in Workers, v # w, Active(v)
    PROVE  ids \cap DOMAIN tx[v].own = {}
BY DEF Waits, Others, Touched

LEMMA PowerplayNext ==
    ASSUME StationsInv, NEW w \in Workers, Powerplay(w)
    PROVE  StationsInv'
<1> DEFINE t == tx[w]
           C == CarriersIn(View(rows, t.own), t.m.system)
           u == [t EXCEPT !.own = Over(t.own, Deleting(C)), !.phase = AfterPowerplay(t.m, t.stronghold)]
<1>1. Active(w) /\ t.phase = "powerplay" /\ ~Waits(w, C)
  BY VisibleIsView DEF Powerplay
<1>2. /\ rows \in Tables /\ t \in Txs /\ raced[w] \in BOOLEAN /\ Job(t, rows, raced[w])
      /\ \A v \in Workers : v # w /\ Active(v) => Apart(t, tx[v])
      /\ begun \in 0 .. MaxJobs
  BY <1>1, JobFacts
<1>3. Become(w, u)
  <2>1. Become(w, [Write(w, Deleting(C)) EXCEPT !.phase = AfterPowerplay(t.m, t.stronghold)])
    BY VisibleIsView, Zenon DEF Powerplay, Deleting
  <2> DEFINE p == AfterPowerplay(t.m, t.stronghold)
  <2> HIDE DEF C, p
  <2>2. [Write(w, Deleting(C)) EXCEPT !.phase = p] =
        [t EXCEPT !.own = Over(t.own, Deleting(C)), !.phase = p]
    BY <1>2 DEF Write, Over, Txs
  <2> QED BY <2>1, <2>2 DEF p
<1>4. u \in Txs /\ Job(u, rows, raced[w])
  BY <1>1, <1>2, PowerplayJob
<1>5. u.m = t.m /\ u.own = Over(t.own, Deleting(C))
  BY <1>2 DEF Txs
<1>6. UNCHANGED <<rows, stronghold, raced, begun>>
  BY DEF Powerplay
<1>7. \A v \in Workers : v # w /\ Active(v) => C \cap DOMAIN tx[v].own = {}
  BY <1>1, NoWait
<1> HIDE DEF u, t, C
<1>8. \A v \in Workers : v # w /\ Active(v) => Apart(u, tx[v])
  BY <1>2, <1>5, <1>7, ApartDeleted
<1> QED BY <1>2, <1>3, <1>4, <1>6, <1>8, OneJob

LEMMA ReadFirstNext ==
    ASSUME StationsInv, NEW w \in Workers, ReadFirst(w)
    PROVE  StationsInv'
<1> DEFINE t == tx[w]
           vs == View(rows, t.own)
           f == Pick(vs, IF IsCarrier(t.m) THEN CarriersIn(vs, t.m.system) ELSE ByMarket(t, vs))
           u == [t EXCEPT !.phase = "second", !.first = f]
<1>1. Active(w) /\ t.phase = "first"
  BY DEF ReadFirst
<1>2. /\ rows \in Tables /\ t \in Txs /\ raced[w] \in BOOLEAN /\ Job(t, rows, raced[w])
      /\ \A v \in Workers : v # w /\ Active(v) => Apart(t, tx[v])
      /\ begun \in 0 .. MaxJobs
  BY <1>1, JobFacts
<1>3. Become(w, u)
  <2>1. IsCarrier(t.m) => Find(w, CarriersIn(Visible(w), t.m.system)) = f
    BY VisibleIsView, FindIsPick
  <2>2. ~IsCarrier(t.m) => FindByMarket(w) = f
    BY VisibleIsView, FindIsPick DEF FindByMarket, ByMarket
  <2> HIDE DEF f
  <2> QED BY <2>1, <2>2 DEF ReadFirst
<1>4. u \in Txs /\ Job(u, rows, raced[w])
  BY <1>1, <1>2, ReadFirstJob
<1>5. u.m = t.m /\ u.own = t.own
  BY <1>2 DEF Txs
<1>6. UNCHANGED <<rows, stronghold, raced, begun>>
  BY DEF ReadFirst
<1> HIDE DEF u, t
<1>7. \A v \in Workers : v # w /\ Active(v) => Apart(u, tx[v])
  BY <1>2, <1>5, ApartMoved
<1> QED BY <1>2, <1>3, <1>4, <1>6, <1>7, OneJob

LEMMA ReadSecondNext ==
    ASSUME StationsInv, NEW w \in Workers, ReadSecond(w)
    PROVE  StationsInv'
<1> DEFINE t == tx[w]
           vs == View(rows, t.own)
           f == Pick(vs, IF IsCarrier(t.m) THEN ByMarket(t, vs) ELSE ByName(t, vs))
           r == [t EXCEPT !.second = f]
           phase == IF ToDelete(r) = {} THEN "put" ELSE "delete"
           u == [t EXCEPT !.second = f, !.phase = phase]
<1>1. Active(w) /\ t.phase = "second"
  BY DEF ReadSecond
<1>2. /\ rows \in Tables /\ t \in Txs /\ raced[w] \in BOOLEAN /\ Job(t, rows, raced[w])
      /\ \A v \in Workers : v # w /\ Active(v) => Apart(t, tx[v])
      /\ begun \in 0 .. MaxJobs
  BY <1>1, JobFacts
<1>3. Become(w, [r EXCEPT !.phase = phase])
  <2>1. IsCarrier(t.m) => FindByMarket(w) = f
    BY VisibleIsView, FindIsPick DEF FindByMarket, ByMarket
  <2>2. ~IsCarrier(t.m) => FindByName(w) = f
    BY VisibleIsView, FindIsPick DEF FindByName, ByName
  <2> HIDE DEF f
  <2>3. f = IF IsCarrier(t.m) THEN FindByMarket(w) ELSE FindByName(w)
    BY <2>1, <2>2
  <2> QED BY <2>3 DEF ReadSecond
<1> HIDE DEF phase
<1>4. phase \in {"delete", "put"}
  BY DEF phase
<1>5. u \in Txs /\ ((phase = "put" => ToDelete(u) = {}) => Job(u, rows, raced[w]))
  BY <1>1, <1>2, <1>4, ReadSecondJob
<1> HIDE DEF f
<1>6. [r EXCEPT !.phase = phase] = u
  BY <1>2 DEF Txs
<1>7. u.m = t.m /\ u.own = t.own
  BY <1>2 DEF Txs
<1>8. ToDelete(u) = ToDelete(r)
  <2>1. u.m = r.m /\ u.first = r.first /\ u.second = r.second
    BY <1>2 DEF Txs
  <2> QED BY <2>1 DEF ToDelete
<1>9. Job(u, rows, raced[w])
  BY <1>5, <1>8 DEF phase
<1>10. UNCHANGED <<rows, stronghold, raced, begun>>
  BY DEF ReadSecond
<1> HIDE DEF u, t, r
<1>11. \A v \in Workers : v # w /\ Active(v) => Apart(u, tx[v])
  BY <1>2, <1>7, ApartMoved
<1> QED BY <1>2, <1>3, <1>5, <1>6, <1>9, <1>10, <1>11, OneJob

LEMMA DeleteNext ==
    ASSUME StationsInv, NEW w \in Workers, Delete(w)
    PROVE  StationsInv'
<1> DEFINE t == tx[w]
           D == ToDelete(t) \cap DOMAIN View(rows, t.own)
           u == [t EXCEPT !.own = Over(t.own, Deleting(D)), !.phase = "put"]
<1>1. Active(w) /\ t.phase = "delete" /\ ~Waits(w, ToDelete(t))
  BY DEF Delete
<1>2. /\ rows \in Tables /\ t \in Txs /\ raced[w] \in BOOLEAN /\ Job(t, rows, raced[w])
      /\ \A v \in Workers : v # w /\ Active(v) => Apart(t, tx[v])
      /\ begun \in 0 .. MaxJobs
  BY <1>1, JobFacts
<1>3. Become(w, u)
  <2>1. Become(w, [Write(w, Deleting(D)) EXCEPT !.phase = "put"])
    BY VisibleIsView, Zenon DEF Delete, Deleting
  <2> HIDE DEF D
  <2>2. [Write(w, Deleting(D)) EXCEPT !.phase = "put"] = u
    BY <1>2 DEF Write, Over, Txs
  <2> QED BY <2>1, <2>2
<1>4. u \in Txs /\ Job(u, rows, raced[w])
  BY <1>1, <1>2, DeleteJob
<1>5. u.m = t.m /\ u.own = Over(t.own, Deleting(D))
  BY <1>2 DEF Txs
<1>6. UNCHANGED <<rows, stronghold, raced, begun>>
  BY DEF Delete
<1>7. \A v \in Workers : v # w /\ Active(v) => D \cap DOMAIN tx[v].own = {}
  BY <1>1, NoWait
<1> HIDE DEF u, t, D
<1>8. \A v \in Workers : v # w /\ Active(v) => Apart(u, tx[v])
  BY <1>2, <1>5, <1>7, ApartDeleted
<1> QED BY <1>2, <1>3, <1>4, <1>6, <1>8, OneJob

LEMMA PutsStore ==
    ASSUME NEW w \in Workers, NEW p \in Puts(w)
    PROVE  Stores(tx[w], View(rows, tx[w].own), p.id, p.row)
<1>1. CASE Survivor(tx[w]) = Nothing
  <2>1. PICK i \in NewIds : p = [id |-> i, row |-> NewRow(tx[w].m)]
    BY <1>1 DEF Puts
  <2>2. i \in Ids
    BY DEF NewIds, FreeIds
  <2> QED BY <1>1, <2>1, <2>2 DEF Stores
<1>2. CASE Survivor(tx[w]) # Nothing
  <2>1. Survivor(tx[w]).id \in DOMAIN Visible(w)
    BY <1>2 DEF Puts
  <2>2. p = [id |-> Survivor(tx[w]).id,
             row |-> Updated(tx[w], Visible(w)[Survivor(tx[w]).id], Survivor(tx[w]).row)]
    BY <1>2, <2>1 DEF Puts
  <2> QED BY <1>2, <2>1, <2>2, VisibleIsView DEF Stores
<1> QED BY <1>1, <1>2

LEMMA PutNext ==
    ASSUME StationsInv, NEW w \in Workers, Put(w)
    PROVE  StationsInv'
<1> DEFINE t == tx[w]
           vs == View(rows, t.own)
<1>1. Active(w) /\ t.phase = "put"
  BY DEF Put
<1>2. /\ rows \in Tables /\ t \in Txs /\ raced[w] \in BOOLEAN /\ Job(t, rows, raced[w])
      /\ \A v \in Workers : v # w /\ Active(v) => Apart(t, tx[v])
      /\ begun \in 0 .. MaxJobs
  BY <1>1, JobFacts
<1>3. UNCHANGED <<rows, stronghold, raced, begun>>
  BY DEF Put
<1>4. CASE /\ Puts(w) = {}
           /\ Survivor(tx[w]) # Nothing
           /\ Become(w, [tx[w] EXCEPT !.phase = "commit"])
  <2> DEFINE u == [t EXCEPT !.phase = "commit"]
  <2>1. Survivor(t).id \notin DOMAIN vs
    BY <1>4, VisibleIsView DEF Puts
  <2>2. u \in Txs /\ Job(u, rows, raced[w])
    BY <1>1, <1>2, <1>4, <2>1, SkipJob
  <2>3. u.m = t.m /\ u.own = t.own
    BY <1>2 DEF Txs
  <2>4. Become(w, u)
    BY <1>4
  <2> HIDE DEF u, t
  <2>5. \A v \in Workers : v # w /\ Active(v) => Apart(u, tx[v])
    BY <1>2, <2>3, ApartMoved
  <2> QED BY <1>2, <1>3, <2>2, <2>4, <2>5, OneJob
<1>5. ASSUME NEW p \in Puts(w), ~Waits(w, {p.id} \cup Rivals(w, p.id, p.row)),
             RivalsElsewhere(w, p.id, p.row) = {}, Rivals(w, p.id, p.row) = {},
             Become(w, [Write(w, [i \in {p.id} |-> p.row]) EXCEPT !.phase = "commit"])
      PROVE  StationsInv'
  <2> DEFINE id == p.id
             row == p.row
             u == [t EXCEPT !.own = Over(t.own, Storing(id, row)), !.phase = "commit"]
  <2>1. Stores(t, vs, id, row)
    BY PutsStore
  <2>2. \A i \in DOMAIN vs \ {id} : ~Sharing(vs[i], row)
    BY <1>5, VisibleIsView DEF Rivals
  <2>3. \A v \in Workers : v # w /\ Active(v) =>
           /\ id \notin DOMAIN tx[v].own
           /\ \A i \in DOMAIN tx[v].own : tx[v].own[i] # Gone => ~Sharing(tx[v].own[i], row)
    <3> SUFFICES ASSUME NEW v \in Workers, v # w, Active(v)
                 PROVE  /\ id \notin DOMAIN tx[v].own
                        /\ \A i \in DOMAIN tx[v].own :
                              tx[v].own[i] # Gone => ~Sharing(tx[v].own[i], row)
      OBVIOUS
    <3>1. id \notin DOMAIN tx[v].own
      BY <1>5, NoWait
    <3>2. v \in Others(w)
      BY DEF Others
    <3> QED BY <1>5, <3>1, <3>2 DEF RivalsElsewhere
  <2>4. Become(w, u)
    <3>1. Become(w, [Write(w, Storing(id, row)) EXCEPT !.phase = "commit"])
      BY <1>5, Zenon DEF Storing
    <3> HIDE DEF id, row
    <3>2. [Write(w, Storing(id, row)) EXCEPT !.phase = "commit"] = u
      BY <1>2 DEF Write, Over, Txs
    <3> QED BY <3>1, <3>2
  <2> HIDE DEF id, row
  <2>5. u \in Txs /\ Job(u, rows, raced[w])
    BY <1>1, <1>2, <2>1, <2>2, PutJob
  <2>6. u.m = t.m /\ u.own = Over(t.own, Storing(id, row))
    BY <1>2 DEF Txs
  <2> HIDE DEF u, t
  <2>7. \A v \in Workers : v # w /\ Active(v) => Apart(u, tx[v])
    BY <1>2, <2>3, <2>6, ApartStored
  <2> QED BY <1>2, <1>3, <2>4, <2>5, <2>7, OneJob
<1> QED BY <1>4, <1>5 DEF Put

LEMMA AbortNext ==
    ASSUME StationsInv, NEW w \in Workers, Abort(w)
    PROVE  StationsInv'
<1>1. /\ rows' = rows /\ stronghold' = stronghold /\ begun' = begun
      /\ tx' = [tx EXCEPT ![w] = Idle] /\ raced' = [raced EXCEPT ![w] = FALSE]
  BY DEF Abort, Become
<1>2. /\ tx' \in [Workers -> Txs \cup {Idle}] /\ tx'[w] = Idle
      /\ raced' \in [Workers -> BOOLEAN]
      /\ \A v \in Workers : v # w => tx'[v] = tx[v] /\ raced'[v] = raced[v]
  BY <1>1 DEF StationsInv
<1>3. LoyalInStrongholds'
  BY <1>1 DEF StationsInv, LoyalInStrongholds, CarriersIn, LoyalIn
<1>4. \A v \in Workers : Active(v)' => v # w /\ Active(v)
  BY <1>2 DEF Active
<1>5. ASSUME NEW v \in Workers, Active(v)'
      PROVE  Job(tx'[v], rows, raced'[v])
  BY <1>2, <1>4, <1>5 DEF StationsInv
<1>6. ASSUME NEW v \in Workers, NEW u \in Workers, v # u, Active(v)', Active(u)'
      PROVE  Apart(tx'[v], tx'[u])
  BY <1>2, <1>4, <1>6 DEF StationsInv
<1>7. rows \in Tables /\ UniqueKeys(rows) /\ stronghold \subseteq Systems
      /\ begun \in 0 .. MaxJobs
  BY DEF StationsInv
<1> QED BY <1>1, <1>2, <1>3, <1>5, <1>6, <1>7 DEF StationsInv

LEMMA CommitNext ==
    ASSUME StationsInv, NEW w \in Workers, Commit(w)
    PROVE  StationsInv'
<1> DEFINE t == tx[w]
           vs == View(rows, t.own)
<1>1. Active(w) /\ t.phase = "commit"
  BY DEF Commit
<1>2. /\ rows \in Tables /\ t \in Txs /\ Job(t, rows, raced[w])
      /\ \A v \in Workers : v # w /\ Active(v) => Apart(t, tx[v])
      /\ begun \in 0 .. MaxJobs
  BY <1>1, JobFacts
<1>3. /\ rows' = vs /\ begun' = begun /\ tx' = [tx EXCEPT ![w] = Idle]
      /\ stronghold' = IF t.stronghold THEN stronghold \cup {t.m.system}
                       ELSE stronghold \ {t.m.system}
      /\ raced' = [v \in Workers |-> v \in Others(w) /\ (raced[v] \/ Disturbs(w, v))]
  BY VisibleIsView DEF Commit, Become
<1>4. /\ tx' \in [Workers -> Txs \cup {Idle}] /\ tx'[w] = Idle
      /\ \A v \in Workers : v # w => tx'[v] = tx[v]
  BY <1>3 DEF StationsInv
<1>5. raced' \in [Workers -> BOOLEAN]
  <2>1. \A v \in Workers : (v \in Others(w) /\ (raced[v] \/ Disturbs(w, v))) \in BOOLEAN
    OBVIOUS
  <2> QED BY <1>3, <2>1, Zenon
<1>6. \A v \in Workers : Active(v)' => v # w /\ Active(v)
  BY <1>4 DEF Active
<1>7. InSystem(t) /\ UniqueKeys(vs) /\ SeesNoCarriers(t, vs)
  BY <1>2 DEF Job
<1>8. ASSUME NEW v \in Workers, Active(v)'
      PROVE  Job(tx'[v], rows', raced'[v])
  <2>1. v # w /\ Active(v) /\ tx'[v] = tx[v]
    BY <1>4, <1>6, <1>8
  <2>2. /\ tx[v] \in Txs /\ raced[v] \in BOOLEAN /\ Job(tx[v], rows, raced[v])
        /\ Apart(t, tx[v])
    BY <1>2, <2>1, JobFacts
  <2>3. Disturbs(w, v) <=> DisturbedBy(t, tx[v])
    BY <1>1 DEF Disturbs, DisturbedBy, Touched
  <2>4. raced'[v] \in BOOLEAN
    BY <1>5
  <2>5. raced[v] \/ DisturbedBy(t, tx[v]) => raced'[v]
    BY <1>3, <2>1, <2>3 DEF Others
  <2>6. Job(tx[v], vs, raced'[v])
    BY <1>2, <1>7, <2>2, <2>4, <2>5, CommitJob
  <2> QED BY <1>3, <2>1, <2>6
<1>9. ASSUME NEW v \in Workers, NEW u \in Workers, v # u, Active(v)', Active(u)'
      PROVE  Apart(tx'[v], tx'[u])
  BY <1>4, <1>6, <1>9 DEF StationsInv
<1>10. t.m.system \in Systems /\ t.stronghold \in BOOLEAN
  BY <1>2, TxFacts, MessageFacts
<1>11. rows' \in Tables /\ UniqueKeys(rows') /\ stronghold' \subseteq Systems
  BY <1>2, <1>3, <1>7, <1>10, ViewType, TxFacts DEF StationsInv
<1>12. LoyalInStrongholds'
  <2> SUFFICES ASSUME NEW s \in Systems, LoyalIn(vs, s) # {}
               PROVE  s \in stronghold'
    BY <1>3 DEF LoyalInStrongholds, LoyalIn, CarriersIn
  <2>1. CASE s = t.m.system
    BY <1>1, <1>3, <1>7, <2>1 DEF SeesNoCarriers
  <2>2. CASE s # t.m.system
    <3>1. PICK i \in LoyalIn(vs, s) : TRUE
      OBVIOUS
    <3>2. i \in DOMAIN vs /\ vs[i].system = s
      BY DEF LoyalIn, CarriersIn
    <3>3. i \notin DOMAIN t.own /\ i \in DOMAIN rows /\ vs[i] = rows[i]
      BY <1>7, <2>2, <3>2, ViewAt DEF InSystem
    <3>4. i \in LoyalIn(rows, s)
      BY <3>1, <3>3 DEF LoyalIn, CarriersIn
    <3>5. s \in stronghold
      BY <3>4 DEF StationsInv, LoyalInStrongholds
    <3> QED BY <1>3, <2>2, <3>5
  <2> QED BY <2>1, <2>2
<1> QED BY <1>2, <1>3, <1>4, <1>5, <1>8, <1>9, <1>11, <1>12 DEF StationsInv

LEMMA StationsInvInit == StationsInit => StationsInv
<1> SUFFICES ASSUME StationsInit
             PROVE  StationsInv
  OBVIOUS
<1>1. /\ stronghold \subseteq Systems
      /\ tx = [w \in Workers |-> Idle] /\ raced = [w \in Workers |-> FALSE] /\ begun = 0
  BY DEF StationsInit
<1>2. \A w \in Workers : ~Active(w)
  BY <1>1 DEF Active
<1>3. /\ tx \in [Workers -> Txs \cup {Idle}] /\ raced \in [Workers -> BOOLEAN]
      /\ begun \in 0 .. MaxJobs
  BY <1>1, StationsAssumption
<1>4. CASE rows = [i \in {} |-> Nothing]
  <2>1. rows \in Tables /\ DOMAIN rows = {}
    BY <1>4, TableType
  <2>2. UniqueKeys(rows) /\ LoyalInStrongholds
    BY <2>1 DEF UniqueKeys, LoyalInStrongholds, CarriersIn, LoyalIn
  <2> QED BY <1>1, <1>2, <1>3, <2>1, <2>2 DEF StationsInv
<1>5. ASSUME NEW row \in StationRow, IsCarrier(row) /\ ~row.strayed => row.system \in stronghold,
             rows = [i \in {j \in Ids : \A k \in Ids : j <= k} |-> row]
      PROVE  StationsInv
  <2>1. rows \in Tables
    BY <1>5, TableType
  <2>2. \A i, j \in DOMAIN rows : i = j
    BY <1>5, StationsAssumption
  <2>3. UniqueKeys(rows)
    BY <2>2 DEF UniqueKeys
  <2>4. LoyalInStrongholds
    BY <1>5 DEF LoyalInStrongholds, CarriersIn, LoyalIn, IsCarrier, CarrierNames
  <2> QED BY <1>1, <1>2, <1>3, <2>1, <2>3, <2>4 DEF StationsInv
<1> QED BY <1>4, <1>5 DEF StationsInit

LEMMA StationsInvNext == StationsInv /\ [StationsNext]_stationsVars => StationsInv'
<1> SUFFICES ASSUME StationsInv, [StationsNext]_stationsVars
             PROVE  StationsInv'
  OBVIOUS
<1>1. ASSUME NEW w \in Workers, NEW m \in Feed, Begin(w, m)
      PROVE  StationsInv'
  BY <1>1, BeginNext, StationsAssumption
<1>2. ASSUME NEW w \in Workers, Powerplay(w)
      PROVE  StationsInv'
  BY <1>2, PowerplayNext
<1>3. ASSUME NEW w \in Workers, ReadFirst(w)
      PROVE  StationsInv'
  BY <1>3, ReadFirstNext
<1>4. ASSUME NEW w \in Workers, ReadSecond(w)
      PROVE  StationsInv'
  BY <1>4, ReadSecondNext
<1>5. ASSUME NEW w \in Workers, Delete(w)
      PROVE  StationsInv'
  BY <1>5, DeleteNext
<1>6. ASSUME NEW w \in Workers, Put(w)
      PROVE  StationsInv'
  BY <1>6, PutNext
<1>7. ASSUME NEW w \in Workers, Commit(w)
      PROVE  StationsInv'
  BY <1>7, CommitNext
<1>8. ASSUME NEW w \in Workers, Abort(w)
      PROVE  StationsInv'
  BY <1>8, AbortNext
<1>9. CASE UNCHANGED stationsVars
  BY <1>9 DEF stationsVars, StationsInv, Active, LoyalInStrongholds, CarriersIn, LoyalIn
<1> QED BY <1>1, <1>2, <1>3, <1>4, <1>5, <1>6, <1>7, <1>8, <1>9 DEF StationsNext

LEMMA StationsInvAlways == StationsSpec => []StationsInv
BY StationsInvInit, StationsInvNext, PTL DEF StationsSpec

-----------------------------------------------------------------------------
(* What a job writes over.  A second invariant, on top of the first: what  *)
(* a job has found has a key of its station, and as long as it has not     *)
(* been raced, so has every committed row it has touched.                  *)

Finds(t) == \A f \in {t.first, t.second} \ {Nothing} : Concerns(t.m, f.row)
Spares(t, rs) == \A i \in DOMAIN t.own \cap DOMAIN rs : Concerns(t.m, rs[i])

SparesInv ==
    \A w \in Workers : Active(w) =>
        Finds(tx[w]) /\ (~raced[w] => Spares(tx[w], rows))

LEMMA PickConcerns ==
    ASSUME NEW m, NEW vs, NEW ids, \A i \in ids : Concerns(m, vs[i])
    PROVE  Pick(vs, ids) # Nothing => Concerns(m, Pick(vs, ids).row)
<1>1. CASE ids = {}
  BY <1>1 DEF Pick
<1>2. CASE ids # {}
  <2> DEFINE c == CHOOSE i \in ids : TRUE
  <2>1. c \in ids
    BY <1>2
  <2>2. Pick(vs, ids) = [id |-> c, row |-> vs[c]]
    BY <1>2 DEF Pick
  <2> HIDE DEF c
  <2> QED BY <2>1, <2>2
<1> QED BY <1>1, <1>2

LEMMA KeysConcern ==
    ASSUME NEW vs, NEW t
    PROVE  /\ \A i \in ByMarket(t, vs) : Concerns(t.m, vs[i])
           /\ \A i \in ByName(t, vs) : Concerns(t.m, vs[i])
           /\ IsCarrier(t.m) \/ TakesCarriers(t.m) =>
                 \A i \in CarriersIn(vs, t.m.system) : Concerns(t.m, vs[i])
BY DEF ByMarket, ByName, CarriersIn, Concerns, NameOf, IsCarrier, CarrierNames

LEMMA SparesDeleted ==
    ASSUME NEW rs, NEW t, NEW u, NEW D, Spares(t, rs), u.m = t.m,
           u.own = Over(t.own, Deleting(D)),
           \A i \in D : i \in DOMAIN View(rs, t.own) /\ Concerns(t.m, View(rs, t.own)[i])
    PROVE  Spares(u, rs)
<1>1. \A i : i \in DOMAIN u.own <=> i \in DOMAIN t.own \/ i \in D
  BY WritesDeleted
<1>2. \A i \in D : i \notin DOMAIN t.own => Concerns(t.m, rs[i])
  BY ViewAt
<1> QED BY <1>1, <1>2 DEF Spares

LEMMA SparesStored ==
    ASSUME NEW rs, NEW t, NEW u, NEW id, NEW row, Spares(t, rs), u.m = t.m,
           u.own = Over(t.own, Storing(id, row)),
           id \in DOMAIN rs => /\ id \in DOMAIN View(rs, t.own)
                               /\ Concerns(t.m, View(rs, t.own)[id])
    PROVE  Spares(u, rs)
<1>1. \A i : i \in DOMAIN u.own <=> i \in DOMAIN t.own \/ i = id
  BY WritesStored
<1>2. id \in DOMAIN rs /\ id \notin DOMAIN t.own => Concerns(t.m, rs[id])
  BY ViewAt
<1> QED BY <1>1, <1>2 DEF Spares

\* One job becomes t, and no row is committed.
LEMMA OneJobSpares ==
    ASSUME StationsInv, SparesInv, NEW w \in Workers, NEW t, Become(w, t),
           rows' = rows, raced' = raced, Finds(t), ~raced[w] => Spares(t, rows)
    PROVE  SparesInv'
<1>1. tx'[w] = t /\ \A v \in Workers : v # w => tx'[v] = tx[v]
  BY DEF StationsInv, Become
<1>2. ASSUME NEW v \in Workers, Active(v)'
      PROVE  Finds(tx'[v]) /\ (~raced[v] => Spares(tx'[v], rows))
  <2>1. CASE v = w
    BY <1>1, <2>1
  <2>2. CASE v # w
    BY <1>1, <1>2, <2>2 DEF SparesInv, Active
  <2> QED BY <2>1, <2>2
<1> QED BY <1>2 DEF SparesInv

\* What both invariants say of an active job.
LEMMA SparesFacts ==
    ASSUME StationsInv, SparesInv, NEW w \in Workers, Active(w)
    PROVE  /\ rows \in Tables /\ tx[w] \in Txs /\ Job(tx[w], rows, raced[w])
           /\ Finds(tx[w]) /\ (~raced[w] => Spares(tx[w], rows))
BY JobFacts DEF SparesInv

LEMMA BeginSpares ==
    ASSUME StationsInv, SparesInv, NEW w \in Workers, NEW m \in StationMessages, Begin(w, m)
    PROVE  SparesInv'
<1>1. PICK t : /\ Become(w, t) /\ t.first = Nothing /\ t.second = Nothing
               /\ t.own = [i \in {} |-> Gone]
  BY DEF Begin
<1>2. Finds(t) /\ Spares(t, rows)
  BY <1>1 DEF Finds, Spares
<1>3. rows' = rows /\ raced' = raced
  BY DEF Begin
<1> QED BY <1>1, <1>2, <1>3, OneJobSpares

\* The carriers that leave are those of the message's system.
LEMMA PowerplaySpares ==
    ASSUME StationsInv, SparesInv, NEW w \in Workers, Powerplay(w)
    PROVE  SparesInv'
<1> DEFINE t == tx[w]
           C == CarriersIn(View(rows, t.own), t.m.system)
           p == AfterPowerplay(t.m, t.stronghold)
           u == [t EXCEPT !.own = Over(t.own, Deleting(C)), !.phase = p]
<1>1. Active(w) /\ t.phase = "powerplay" /\ rows' = rows /\ raced' = raced
  BY DEF Powerplay
<1>2. /\ t \in Txs /\ Job(t, rows, raced[w])
      /\ Finds(t) /\ (~raced[w] => Spares(t, rows))
  BY <1>1, SparesFacts
<1>3. TakesCarriers(t.m)
  BY <1>1, <1>2 DEF Job, Purposeful
<1>4. \A i \in C : i \in DOMAIN View(rows, t.own) /\ Concerns(t.m, View(rows, t.own)[i])
  BY <1>3, KeysConcern, KeysShared
<1>5. Become(w, [Write(w, Deleting(C)) EXCEPT !.phase = p])
  BY VisibleIsView, Zenon DEF Powerplay, Deleting
<1> HIDE DEF C, p
<1>6. [Write(w, Deleting(C)) EXCEPT !.phase = p] = u
  BY <1>2 DEF Write, Over, Txs
<1>7. /\ u.m = t.m /\ u.first = t.first /\ u.second = t.second
      /\ u.own = Over(t.own, Deleting(C))
  BY <1>2 DEF Txs
<1> HIDE DEF t, u
<1>8. Finds(u)
  BY <1>2, <1>7 DEF Finds
<1>9. ~raced[w] => Spares(u, rows)
  BY <1>2, <1>4, <1>7, SparesDeleted
<1> QED BY <1>1, <1>5, <1>6, <1>8, <1>9, OneJobSpares

\* What a SELECT finds has one of the keys it asks for.
LEMMA ReadFirstSpares ==
    ASSUME StationsInv, SparesInv, NEW w \in Workers, ReadFirst(w)
    PROVE  SparesInv'
<1> DEFINE t == tx[w]
           vs == View(rows, t.own)
           ids == IF IsCarrier(t.m) THEN CarriersIn(vs, t.m.system) ELSE ByMarket(t, vs)
           f == Pick(vs, ids)
           u == [t EXCEPT !.phase = "second", !.first = f]
<1>1. Active(w) /\ rows' = rows /\ raced' = raced
  BY DEF ReadFirst
<1>2. t \in Txs /\ Finds(t) /\ (~raced[w] => Spares(t, rows))
  BY <1>1, SparesFacts
<1>3. Become(w, u)
  <2>1. IsCarrier(t.m) => Find(w, CarriersIn(Visible(w), t.m.system)) = f
    BY VisibleIsView, FindIsPick
  <2>2. ~IsCarrier(t.m) => FindByMarket(w) = f
    BY VisibleIsView, FindIsPick DEF FindByMarket, ByMarket
  <2> HIDE DEF f
  <2> QED BY <2>1, <2>2 DEF ReadFirst
<1>4. \A i \in ids : Concerns(t.m, vs[i])
  BY KeysConcern
<1> HIDE DEF ids, vs
<1>5. f # Nothing => Concerns(t.m, f.row)
  BY <1>4, PickConcerns
<1> HIDE DEF f
<1>6. u.m = t.m /\ u.own = t.own /\ u.first = f /\ u.second = t.second
  BY <1>2 DEF Txs
<1> HIDE DEF t, u
<1>7. Finds(u) /\ (~raced[w] => Spares(u, rows))
  BY <1>2, <1>5, <1>6 DEF Finds, Spares
<1> QED BY <1>1, <1>3, <1>7, OneJobSpares

LEMMA ReadSecondSpares ==
    ASSUME StationsInv, SparesInv, NEW w \in Workers, ReadSecond(w)
    PROVE  SparesInv'
<1> DEFINE t == tx[w]
           vs == View(rows, t.own)
           ids == IF IsCarrier(t.m) THEN ByMarket(t, vs) ELSE ByName(t, vs)
           f == Pick(vs, ids)
           r == [t EXCEPT !.second = f]
           phase == IF ToDelete(r) = {} THEN "put" ELSE "delete"
           u == [r EXCEPT !.phase = phase]
<1>1. Active(w) /\ rows' = rows /\ raced' = raced
  BY DEF ReadSecond
<1>2. t \in Txs /\ Finds(t) /\ (~raced[w] => Spares(t, rows))
  BY <1>1, SparesFacts
<1>3. Become(w, u)
  <2>1. IsCarrier(t.m) => FindByMarket(w) = f
    BY VisibleIsView, FindIsPick DEF FindByMarket, ByMarket
  <2>2. ~IsCarrier(t.m) => FindByName(w) = f
    BY VisibleIsView, FindIsPick DEF FindByName, ByName
  <2> HIDE DEF f
  <2>3. f = IF IsCarrier(t.m) THEN FindByMarket(w) ELSE FindByName(w)
    BY <2>1, <2>2
  <2> QED BY <2>3 DEF ReadSecond
<1>4. \A i \in ids : Concerns(t.m, vs[i])
  BY KeysConcern
<1> HIDE DEF ids, vs, phase
<1>5. f # Nothing => Concerns(t.m, f.row)
  BY <1>4, PickConcerns
<1> HIDE DEF f
<1>6. u.m = t.m /\ u.own = t.own /\ u.first = t.first /\ u.second = f
  BY <1>2 DEF Txs
<1> HIDE DEF t, r, u
<1>7. Finds(u) /\ (~raced[w] => Spares(u, rows))
  BY <1>2, <1>5, <1>6 DEF Finds, Spares
<1> QED BY <1>1, <1>3, <1>7, OneJobSpares

\* The row that is deleted by its id is still the one that was found.
LEMMA DeleteSpares ==
    ASSUME StationsInv, SparesInv, NEW w \in Workers, Delete(w)
    PROVE  SparesInv'
<1> DEFINE t == tx[w]
           vs == View(rows, t.own)
           D == ToDelete(t) \cap DOMAIN vs
           u == [t EXCEPT !.own = Over(t.own, Deleting(D)), !.phase = "put"]
<1>1. Active(w) /\ t.phase = "delete" /\ rows' = rows /\ raced' = raced
  BY DEF Delete
<1>2. /\ t \in Txs /\ Job(t, rows, raced[w])
      /\ Finds(t) /\ (~raced[w] => Spares(t, rows))
  BY <1>1, SparesFacts
<1>3. Become(w, [Write(w, Deleting(D)) EXCEPT !.phase = "put"])
  BY VisibleIsView, Zenon DEF Delete, Deleting
<1>4. ASSUME ~raced[w], NEW i \in D
      PROVE  i \in DOMAIN vs /\ Concerns(t.m, vs[i])
  <2>1. Same(t.first, vs) /\ Same(t.second, vs)
    BY <1>1, <1>2, <1>4 DEF Job, RowsFound
  <2>2. PICK f \in {t.first, t.second} \ {Nothing} : i = f.id
    BY <1>4 DEF ToDelete
  <2>3. vs[i] = f.row /\ Concerns(t.m, f.row)
    BY <1>2, <2>1, <2>2 DEF Same, Finds
  <2> QED BY <1>4, <2>3
<1> HIDE DEF D
<1>5. [Write(w, Deleting(D)) EXCEPT !.phase = "put"] = u
  BY <1>2 DEF Write, Over, Txs
<1>6. /\ u.m = t.m /\ u.first = t.first /\ u.second = t.second
      /\ u.own = Over(t.own, Deleting(D))
  BY <1>2 DEF Txs
<1> HIDE DEF t, u
<1>7. Finds(u)
  BY <1>2, <1>6 DEF Finds
<1>8. ~raced[w] => Spares(u, rows)
  BY <1>2, <1>4, <1>6, SparesDeleted
<1> QED BY <1>1, <1>3, <1>5, <1>7, <1>8, OneJobSpares

\* The id of an inserted row is new, and the row that is updated is still the
\* one that was found.
LEMMA PutSpares ==
    ASSUME StationsInv, SparesInv, NEW w \in Workers, Put(w)
    PROVE  SparesInv'
<1> DEFINE t == tx[w]
           vs == View(rows, t.own)
<1>1. Active(w) /\ t.phase = "put" /\ rows' = rows /\ raced' = raced
  BY DEF Put
<1>2. /\ t \in Txs /\ Job(t, rows, raced[w])
      /\ Finds(t) /\ (~raced[w] => Spares(t, rows))
  BY <1>1, SparesFacts
<1>3. CASE Become(w, [tx[w] EXCEPT !.phase = "commit"])
  <2> DEFINE u == [t EXCEPT !.phase = "commit"]
  <2>1. u.m = t.m /\ u.own = t.own /\ u.first = t.first /\ u.second = t.second
    BY <1>2 DEF Txs
  <2>2. Become(w, u)
    BY <1>3
  <2> HIDE DEF t, u
  <2>3. Finds(u) /\ (~raced[w] => Spares(u, rows))
    BY <1>2, <2>1 DEF Finds, Spares
  <2> QED BY <1>1, <2>2, <2>3, OneJobSpares
<1>4. ASSUME NEW p \in Puts(w),
             Become(w, [Write(w, [i \in {p.id} |-> p.row]) EXCEPT !.phase = "commit"])
      PROVE  SparesInv'
  <2> DEFINE id == p.id
             row == p.row
             u == [t EXCEPT !.own = Over(t.own, Storing(id, row)), !.phase = "commit"]
  <2>1. ASSUME ~raced[w], id \in DOMAIN rows
        PROVE  id \in DOMAIN vs /\ Concerns(t.m, vs[id])
    <3>1. Survivor(t) # Nothing
      <4> SUFFICES ASSUME Survivor(t) = Nothing
                   PROVE  FALSE
        OBVIOUS
      <4>1. id \in NewIds
        BY DEF Puts
      <4> QED BY <2>1, <4>1 DEF NewIds, FreeIds
    <3>2. id = Survivor(t).id /\ id \in DOMAIN vs
      BY <3>1, PutsStore DEF Stores
    <3>3. Same(Survivor(t), vs)
      BY <1>1, <1>2, <2>1 DEF Job, RowsFound
    <3>4. Survivor(t) \in {t.first, t.second}
      BY DEF Survivor
    <3>5. Concerns(t.m, Survivor(t).row)
      BY <1>2, <3>1, <3>4 DEF Finds
    <3> QED BY <3>1, <3>2, <3>3, <3>5 DEF Same
  <2>2. Become(w, [Write(w, Storing(id, row)) EXCEPT !.phase = "commit"])
    BY <1>4, Zenon DEF Storing
  <2> HIDE DEF id, row
  <2>3. [Write(w, Storing(id, row)) EXCEPT !.phase = "commit"] = u
    BY <1>2 DEF Write, Over, Txs
  <2>4. /\ u.m = t.m /\ u.first = t.first /\ u.second = t.second
        /\ u.own = Over(t.own, Storing(id, row))
    BY <1>2 DEF Txs
  <2> HIDE DEF t, u
  <2>5. Finds(u)
    BY <1>2, <2>4 DEF Finds
  <2>6. ~raced[w] => Spares(u, rows)
    BY <1>2, <2>1, <2>4, SparesStored
  <2> QED BY <1>1, <2>2, <2>3, <2>5, <2>6, OneJobSpares
<1> QED BY <1>3, <1>4 DEF Put

\* A commit changes no row that another job has touched.
LEMMA CommitSpares ==
    ASSUME StationsInv, SparesInv, NEW w \in Workers, Commit(w)
    PROVE  SparesInv'
<1> DEFINE t == tx[w]
           vs == View(rows, t.own)
<1>1. Active(w) /\ rows' = vs /\ tx' = [tx EXCEPT ![w] = Idle]
  BY VisibleIsView DEF Commit, Become
<1>2. raced' = [v \in Workers |-> v \in Others(w) /\ (raced[v] \/ Disturbs(w, v))]
  BY DEF Commit
<1>3. tx'[w] = Idle /\ \A v \in Workers : v # w => tx'[v] = tx[v]
  BY <1>1 DEF StationsInv
<1>4. \A v \in Workers : Active(v)' => v # w /\ Active(v)
  BY <1>3 DEF Active
<1>5. ASSUME NEW v \in Workers, Active(v)'
      PROVE  Finds(tx'[v]) /\ (~raced'[v] => Spares(tx'[v], rows'))
  <2>1. v # w /\ Active(v) /\ tx'[v] = tx[v]
    BY <1>3, <1>4, <1>5
  <2>2. Finds(tx[v]) /\ (~raced[v] => Spares(tx[v], rows))
    BY <2>1 DEF SparesInv
  <2>3. raced[v] => raced'[v]
    BY <1>2, <2>1 DEF Others
  <2>4. DOMAIN t.own \cap DOMAIN tx[v].own = {}
    BY <1>1, <2>1, JobFacts DEF Apart
  <2>5. ASSUME NEW i \in DOMAIN tx[v].own \cap DOMAIN vs
        PROVE  i \in DOMAIN rows /\ vs[i] = rows[i]
    BY <2>4, <2>5, ViewAt
  <2> HIDE DEF vs
  <2>6. Spares(tx[v], rows) => Spares(tx[v], vs)
    BY <2>5 DEF Spares
  <2> QED BY <1>1, <2>1, <2>2, <2>3, <2>6
<1> QED BY <1>5 DEF SparesInv

LEMMA AbortSpares ==
    ASSUME StationsInv, SparesInv, NEW w \in Workers, Abort(w)
    PROVE  SparesInv'
<1>1. /\ rows' = rows
      /\ tx' = [tx EXCEPT ![w] = Idle] /\ raced' = [raced EXCEPT ![w] = FALSE]
  BY DEF Abort, Become
<1>2. /\ tx'[w] = Idle
      /\ \A v \in Workers : v # w => tx'[v] = tx[v] /\ raced'[v] = raced[v]
  BY <1>1 DEF StationsInv
<1>3. \A v \in Workers : Active(v)' => v # w /\ Active(v)
  BY <1>2 DEF Active
<1>4. ASSUME NEW v \in Workers, Active(v)'
      PROVE  Finds(tx'[v]) /\ (~raced'[v] => Spares(tx'[v], rows))
  BY <1>2, <1>3, <1>4 DEF SparesInv
<1> QED BY <1>1, <1>4 DEF SparesInv

LEMMA SparesInvNext ==
    StationsInv /\ SparesInv /\ [StationsNext]_stationsVars => SparesInv'
<1> SUFFICES ASSUME StationsInv, SparesInv, [StationsNext]_stationsVars
             PROVE  SparesInv'
  OBVIOUS
<1>1. ASSUME NEW w \in Workers, NEW m \in Feed, Begin(w, m)
      PROVE  SparesInv'
  BY <1>1, BeginSpares, StationsAssumption
<1>2. ASSUME NEW w \in Workers, Powerplay(w)
      PROVE  SparesInv'
  BY <1>2, PowerplaySpares
<1>3. ASSUME NEW w \in Workers, ReadFirst(w)
      PROVE  SparesInv'
  BY <1>3, ReadFirstSpares
<1>4. ASSUME NEW w \in Workers, ReadSecond(w)
      PROVE  SparesInv'
  BY <1>4, ReadSecondSpares
<1>5. ASSUME NEW w \in Workers, Delete(w)
      PROVE  SparesInv'
  BY <1>5, DeleteSpares
<1>6. ASSUME NEW w \in Workers, Put(w)
      PROVE  SparesInv'
  BY <1>6, PutSpares
<1>7. ASSUME NEW w \in Workers, Commit(w)
      PROVE  SparesInv'
  BY <1>7, CommitSpares
<1>8. ASSUME NEW w \in Workers, Abort(w)
      PROVE  SparesInv'
  BY <1>8, AbortSpares
<1>9. CASE UNCHANGED stationsVars
  BY <1>9 DEF stationsVars, SparesInv, Active
<1> QED BY <1>1, <1>2, <1>3, <1>4, <1>5, <1>6, <1>7, <1>8, <1>9 DEF StationsNext

LEMMA SparesInvAlways == StationsSpec => []SparesInv
<1>1. StationsInit => SparesInv
  BY DEF StationsInit, SparesInv, Active
<1> QED BY <1>1, StationsInvAlways, SparesInvNext, PTL DEF StationsSpec

-----------------------------------------------------------------------------

\* The tables and the transactions keep their shapes, and no two committed
\* stations share a key, whatever statements of how many jobs interleave.
THEOREM StationsTypeCorrect == StationsSpec => []StationsTypeOK
<1>1. ASSUME StationsInv
      PROVE  StationsTypeOK
  <2>1. \E S \in SUBSET Ids : rows \in [S -> StationRow]
    BY <1>1 DEF StationsInv, Tables
  <2>2. ASSUME NEW w \in Workers, Active(w)
        PROVE  /\ tx[w].m \in StationMessages /\ tx[w].phase \in Phases
               /\ \A i \in DOMAIN tx[w].own :
                     i \in Ids /\ (tx[w].own[i] # Gone => tx[w].own[i] \in StationRow)
               /\ \A f \in {tx[w].first, tx[w].second} \ {Nothing} : f \in Found
    BY <1>1, <2>2, JobFacts, TxFacts, WritesType
  <2> QED BY <1>1, <2>1, <2>2 DEF StationsInv, StationsTypeOK, UniqueKeys
<1> QED BY <1>1, StationsInvAlways, PTL

\* A carrier in a system that is no stronghold has strayed, however the jobs that
\* move, rename, delete and insert stations interleave: no Docked message put it
\* there, and no stronghold that was lost left it behind under its own name.
THEOREM CarriersInStrongholdsAlways == StationsSpec => []CarriersInStrongholds
<1>1. ASSUME StationsInv
      PROVE  CarriersInStrongholds
  <2> SUFFICES ASSUME NEW i \in DOMAIN rows, IsCarrier(rows[i]), ~rows[i].strayed
               PROVE  rows[i].system \in stronghold
    BY DEF CarriersInStrongholds
  <2>1. rows[i] \in StationRow
    BY <1>1, TableType DEF StationsInv
  <2>2. rows[i].name = Canonical /\ rows[i].system \in Systems
    BY <2>1, RowFacts
  <2>3. i \in LoyalIn(rows, rows[i].system)
    BY <2>2 DEF LoyalIn, CarriersIn, IsCarrier
  <2> QED BY <1>1, <2>2, <2>3 DEF StationsInv, LoyalInStrongholds
<1> QED BY <1>1, StationsInvAlways, PTL

\* A job that no commit has disturbed between its reads and its writes stores
\* its station, only an incomplete carrier's name can make it fail, and of the
\* committed stations it writes over none but its own.
THEOREM UnracedJobsStoreAlways == StationsSpec => []UnracedJobsStore
<1>1. ASSUME StationsInv, SparesInv
      PROVE  UnracedJobsStore
  <2> SUFFICES ASSUME NEW w \in Workers, ~raced[w], Active(w)
               PROVE  CanStore(w) /\ HasStored(w) /\ SparesOthers(w)
    BY DEF UnracedJobsStore, CanStore, HasStored, SparesOthers
  <2>1. rows \in Tables /\ tx[w] \in Txs /\ Job(tx[w], rows, raced[w])
    BY <1>1, JobFacts
  <2>2. Job(tx[w], rows, FALSE)
    BY <2>1 DEF Job
  <2>3. CanStore(w)
    <3> SUFFICES ASSUME tx[w].phase = "put", NEW p \in Puts(w), NEW i \in Rivals(w, p.id, p.row)
                 PROVE  IsCarrier(tx[w].m) /\ Visible(w)[i].name = Canonical /\ ~IsCarrier(Visible(w)[i])
      BY DEF CanStore
    <3>1. Stores(tx[w], View(rows, tx[w].own), p.id, p.row)
      BY PutsStore
    <3>2. i \in DOMAIN View(rows, tx[w].own) \ {p.id} /\ Sharing(View(rows, tx[w].own)[i], p.row)
      BY VisibleIsView DEF Rivals
    <3>3. /\ IsCarrier(tx[w].m) /\ View(rows, tx[w].own)[i].name = Canonical
          /\ ~IsCarrier(View(rows, tx[w].own)[i])
      BY <2>1, <2>2, <3>1, <3>2, KeysFree
    <3>4. Visible(w) = View(rows, tx[w].own)
      BY VisibleIsView
    <3> QED BY <3>3, <3>4
  <2>4. HasStored(w)
    <3> SUFFICES ASSUME tx[w].phase = "commit", tx[w].m.name # Undefined,
                        IsCarrier(tx[w].m) => tx[w].stronghold
                 PROVE  \E i \in DOMAIN Visible(w) : IsStored(tx[w], Visible(w)[i])
      BY DEF HasStored
    <3>1. PICK i \in DOMAIN tx[w].own : tx[w].own[i] # Gone /\ IsStored(tx[w], tx[w].own[i])
      BY <2>2 DEF Job, Written
    <3>2. i \in DOMAIN Visible(w) /\ Visible(w)[i] = tx[w].own[i]
      BY <3>1, ViewAt, VisibleIsView
    <3> QED BY <3>1, <3>2
  <2>5. SparesOthers(w)
    BY <1>1 DEF SparesInv, Spares, SparesOthers, Touched
  <2> QED BY <2>3, <2>4, <2>5
<1> QED BY <1>1, StationsInvAlways, SparesInvAlways, PTL
=============================================================================
