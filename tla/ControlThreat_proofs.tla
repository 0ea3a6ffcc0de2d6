------------------------ MODULE ControlThreat_proofs ------------------------
(***************************************************************************)
(* Proofs about the control threat triggers for any factions, influences   *)
(* and threshold: the row is current, and its flips are announced in turn. *)
(***************************************************************************)
EXTENDS ControlThreat, TLAPS

\* A row of systemFactionControlThreats that describes the rows inf of
\* factionStates and the controller c.
RowCurrent(row, inf, c) ==
    /\ row.exists =>
        /\ row.faction = c
        /\ row.challenger \in Challenger(inf, c)
        /\ row.gap = GapTo(inf, c, row.challenger)
        /\ row.threatened = ThreatIn(inf, c)
    /\ ~row.exists => ~row.threatened /\ c \notin DOMAIN inf

\* The status that the last event leaves subscribers with, a before any.
LastStatus(s, a) == IF s = <<>> THEN a ELSE s[Len(s)].status

\* What is announced, committed or pending, is what the row says.
Announced ==
    /\ saved.threat.threatened <=> announced = "entered"
    /\ threat.threatened <=> LastStatus(emitted, announced) = "entered"

\* Nothing has happened before the first statement, and an ordinary message
\* changes nothing before its last.
Untouched ==
    \/ step \in {"none", "cleanup"}
    \/ step \in {"sync", "upsert"} /\ OrdinaryMessage

IInv ==
    /\ TypeOK
    /\ RowCurrent(threat, influence, controller)
    /\ RowCurrent(saved.threat, saved.influence, saved.controller)
    /\ Announced
    /\ EventsAlternate
    /\ Untouched => Tables = saved /\ emitted = <<>>
    /\ OrdinaryMessageAnnouncesOnce

-----------------------------------------------------------------------------
(* The rows of factionStates, and what the function reads from them.       *)

\* Any influences of any factions are rows of factionStates.
LEMMA StatesIntro ==
    ASSUME NEW S \in SUBSET Factions, NEW g \in [S -> Levels]
    PROVE  g \in States
BY DEF States

\* Rows of factionStates are influences of factions.
LEMMA StatesElim ==
    ASSUME NEW g \in States
    PROVE  /\ DOMAIN g \in SUBSET Factions
           /\ g \in [DOMAIN g -> Levels]
           /\ \A f \in DOMAIN g : g[f] \in Int
<1>1. PICK S \in SUBSET Factions : g \in [S -> Levels]
  BY DEF States
<1>2. DOMAIN g = S
  BY <1>1
<1>3. g \in [DOMAIN g -> Levels]
  BY <1>1, <1>2
<1>4. \A f \in DOMAIN g : g[f] \in Int
  BY <1>3, ThreatAssumption
<1> QED
  BY <1>2, <1>3, <1>4

\* The challenger that the query returns decides the threat of the system,
\* whichever of equally strong ones it is.
LEMMA ChallengerDecides ==
    ASSUME NEW inf \in States, NEW c \in MaybeFaction, NEW x \in Challenger(inf, c)
    PROVE  /\ x \in MaybeFaction
           /\ GapTo(inf, c, x) \in MaybeGap
           /\ Threatened(GapTo(inf, c, x)) <=> ThreatIn(inf, c)
           /\ ThreatIn(inf, c) =>
                /\ c \in Factions
                /\ x \in Factions
                /\ GapTo(inf, c, x) \in Int
                /\ GapTo(inf, c, x) <= Threshold
<1> USE ThreatAssumption
<1>1. CASE Challengers(inf, c) = {}
  <2>1. x = NoFaction /\ GapTo(inf, c, x) = NoGap /\ ~ThreatIn(inf, c)
    BY <1>1 DEF Challenger, GapTo, ThreatIn
  <2> QED
    BY <2>1 DEF Threatened, MaybeFaction, MaybeGap, ThreatIn
<1>2. CASE Challengers(inf, c) # {}
  <2>1. x \in Challengers(inf, c)
    BY <1>2 DEF Challenger
  <2>2. /\ c \in DOMAIN inf
        /\ x \in DOMAIN inf
        /\ \A y \in Challengers(inf, c) : inf[y] <= inf[x] /\ inf[x] <= inf[y]
    BY <2>1 DEF Challengers
  <2>3. /\ c \in Factions /\ x \in Factions /\ x # NoFaction
        /\ \A f \in DOMAIN inf : inf[f] \in Int
    BY <2>2, StatesElim
  <2>4. GapTo(inf, c, x) = inf[c] - inf[x] /\ GapTo(inf, c, x) \in Int
    BY <2>2, <2>3 DEF GapTo
  <2>5. GapTo(inf, c, x) # NoGap
    BY <2>4
  <2>6. Threatened(GapTo(inf, c, x)) <=> GapTo(inf, c, x) <= Threshold
    BY <2>5 DEF Threatened
  <2>7. \A y \in Challengers(inf, c) : y \in DOMAIN inf
    BY <2>2 DEF Challengers
  <2>8. ThreatIn(inf, c) <=> inf[c] - inf[x] <= Threshold
    <3>1. \A y \in Challengers(inf, c) : inf[y] = inf[x]
      BY <2>2, <2>3, <2>7
    <3> QED
      BY <2>1, <3>1 DEF ThreatIn
  <2>9. Threatened(GapTo(inf, c, x)) <=> ThreatIn(inf, c)
    BY <2>4, <2>6, <2>8
  <2> QED
    BY <2>3, <2>4, <2>8, <2>9 DEF MaybeFaction, MaybeGap
<1> QED
  BY <1>1, <1>2

\* The same, as an equation of truth values.
LEMMA ThreatenedIsThreatIn ==
    ASSUME NEW inf \in States, NEW c \in MaybeFaction, NEW x \in Challenger(inf, c)
    PROVE  Threatened(GapTo(inf, c, x)) = ThreatIn(inf, c) /\ ThreatIn(inf, c) \in BOOLEAN
<1>1. ThreatIn(inf, c) \in BOOLEAN
  BY Zenon DEF ThreatIn
<1>2. Threatened(GapTo(inf, c, x)) \in BOOLEAN
  BY Zenon DEF Threatened
<1>3. Threatened(GapTo(inf, c, x)) <=> ThreatIn(inf, c)
  BY ChallengerDecides
<1> QED
  BY <1>1, <1>2, <1>3, Zenon

\* The row that the function writes describes what it read.
LEMMA RowOfIsCurrent ==
    ASSUME NEW inf \in States, NEW c \in MaybeFaction, NEW x \in Challenger(inf, c),
           NEW before
    PROVE  /\ RowOf(before, c, x, GapTo(inf, c, x)) \in ThreatRow
           /\ RowCurrent(RowOf(before, c, x, GapTo(inf, c, x)), inf, c)
           /\ RowOf(before, c, x, GapTo(inf, c, x)).threatened = ThreatIn(inf, c)
<1>1. Threatened(GapTo(inf, c, x)) = ThreatIn(inf, c) /\ ThreatIn(inf, c) \in BOOLEAN
  BY ThreatenedIsThreatIn
<1> QED
  BY <1>1, ChallengerDecides DEF RowOf, ThreatRow, RowCurrent

\* A threatened row names two factions and a gap that is small enough.
LEMMA ThreatenedRow ==
    ASSUME NEW inf \in States, NEW c \in MaybeFaction, NEW row \in ThreatRow,
           RowCurrent(row, inf, c), row.threatened
    PROVE  /\ row.faction = c
           /\ row.faction \in Factions
           /\ row.challenger \in Factions
           /\ row.gap \in Int
           /\ row.gap <= Threshold
<1>1. /\ row.faction = c
      /\ row.challenger \in Challenger(inf, c)
      /\ row.gap = GapTo(inf, c, row.challenger)
      /\ ThreatIn(inf, c)
  BY DEF RowCurrent, ThreatRow
<1> QED
  BY <1>1, ChallengerDecides

\* The function announces exactly the flips of the row, with complete payloads.
LEMMA EventsOfFlip ==
    ASSUME NEW inf0 \in States, NEW c0 \in MaybeFaction, NEW row \in ThreatRow,
           RowCurrent(row, inf0, c0),
           NEW inf \in States, NEW c \in MaybeFaction, NEW x \in Challenger(inf, c)
    PROVE  LET gap == GapTo(inf, c, x)
               evs == EventsOf(row, c, x, gap)
           IN
           \/ row.threatened = ThreatIn(inf, c) /\ evs = <<>>
           \/ \E e \in Event :
                /\ evs = <<e>>
                /\ row.threatened # ThreatIn(inf, c)
                /\ e.status = "entered" <=> ThreatIn(inf, c)
                /\ e.status = "entered" => e.faction = c /\ e.challenger = x /\ e.gap = gap
                /\ e.status = "cleared" => e.faction = c0 /\ e.gap <= Threshold
<1> DEFINE gap == GapTo(inf, c, x)
<1>1. Threatened(gap) = ThreatIn(inf, c) /\ ThreatIn(inf, c) \in BOOLEAN
  BY ThreatenedIsThreatIn
<1>2. row.threatened \in BOOLEAN
  BY DEF ThreatRow
<1>3. CASE row.threatened = ThreatIn(inf, c)
  BY <1>1, <1>3 DEF EventsOf
<1>4. CASE row.threatened # ThreatIn(inf, c) /\ ThreatIn(inf, c)
  <2> DEFINE e == [status |-> "entered", faction |-> c, challenger |-> x, gap |-> gap]
  <2>1. EventsOf(row, c, x, gap) = <<e>>
    BY <1>1, <1>4 DEF EventsOf
  <2>2. e \in Event
    BY <1>4, ChallengerDecides DEF Event
  <2> QED
    BY <1>4, <2>1, <2>2
<1>5. CASE row.threatened # ThreatIn(inf, c) /\ ~ThreatIn(inf, c)
  <2> DEFINE e == [status |-> "cleared",
                   faction |-> Coalesce(row.faction, c, NoFaction),
                   challenger |-> Coalesce(row.challenger, x, NoFaction),
                   gap |-> Coalesce(row.gap, Coalesce(gap, Threshold, NoGap), NoGap)]
  <2>1. EventsOf(row, c, x, gap) = <<e>>
    BY <1>1, <1>5 DEF EventsOf
  <2>2. row.threatened
    BY <1>1, <1>2, <1>5
  <2>3. /\ row.faction = c0 /\ row.faction \in Factions /\ row.challenger \in Factions
        /\ row.gap \in Int /\ row.gap <= Threshold
    BY <2>2, ThreatenedRow
  <2>4. row.faction # NoFaction /\ row.challenger # NoFaction /\ row.gap # NoGap
    BY <2>3, ThreatAssumption
  <2>5. e.faction = row.faction /\ e.challenger = row.challenger /\ e.gap = row.gap
    BY <2>4 DEF Coalesce
  <2>6. e \in Event
    BY <2>3, <2>4 DEF Coalesce, Event
  <2> HIDE DEF e
  <2>7. e.status = "cleared"
    BY DEF e
  <2> QED
    BY <1>5, <2>1, <2>3, <2>5, <2>6, <2>7
<1> QED
  BY <1>1, <1>2, <1>3, <1>4, <1>5

-----------------------------------------------------------------------------
(* One statement of the transaction.                                       *)

\* The events s alternate, when a was announced before them.
Alternate(s, a) ==
    \A i \in DOMAIN s : s[i].status # IF i = 1 THEN a ELSE s[i - 1].status

\* The payloads of what a transaction announces when it ran the function once.
SingleEvent(s, c, row) ==
    /\ Len(s) <= 1
    /\ \A i \in DOMAIN s :
        /\ s[i].faction = c
        /\ s[i].status = "entered" => s[i].challenger = row.challenger /\ s[i].gap = row.gap
        /\ s[i].status = "cleared" => s[i].gap <= Threshold

\* An event that differs from the last one keeps the sequence alternating.
LEMMA AlternateAppend ==
    ASSUME NEW s \in Seq(Event), NEW a, NEW e \in Event,
           Alternate(s, a), e.status # LastStatus(s, a)
    PROVE  Alternate(Append(s, e), a) /\ LastStatus(Append(s, e), a) = e.status
<1> DEFINE t == Append(s, e)
<1>1. /\ t \in Seq(Event) /\ Len(t) = Len(s) + 1 /\ t[Len(t)] = e
      /\ \A i \in 1..Len(s) : t[i] = s[i]
      /\ Len(s) \in Nat /\ DOMAIN t = 1..(Len(s) + 1) /\ DOMAIN s = 1..Len(s)
  OBVIOUS
<1> HIDE DEF t
<1>2. LastStatus(t, a) = e.status
  BY <1>1 DEF LastStatus
<1>3. ASSUME NEW i \in DOMAIN t PROVE t[i].status # IF i = 1 THEN a ELSE t[i - 1].status
  <2>1. CASE i \in 1..Len(s)
    <3>1. s[i].status # IF i = 1 THEN a ELSE s[i - 1].status
      BY <1>1, <2>1 DEF Alternate
    <3>2. t[i] = s[i] /\ (i # 1 => t[i - 1] = s[i - 1])
      BY <1>1, <2>1
    <3> QED
      BY <3>1, <3>2
  <2>2. CASE i = Len(s) + 1
    <3>1. CASE s = <<>>
      BY <1>1, <2>2, <3>1 DEF LastStatus
    <3>2. CASE s # <<>>
      <4>1. i # 1 /\ i - 1 = Len(s) /\ Len(s) \in 1..Len(s)
        BY <2>2, <3>2
      <4>2. t[i - 1] = s[Len(s)] /\ t[i] = e
        BY <1>1, <2>2, <4>1
      <4> QED
        BY <3>2, <4>1, <4>2 DEF LastStatus
    <3> QED
      BY <3>1, <3>2
  <2> QED
    BY <1>1, <2>1, <2>2
<1> QED
  BY <1>2, <1>3 DEF Alternate, t

\* What the statements preserve of the pending events and the row.
Pending ==
    /\ threat \in ThreatRow
    /\ emitted \in Seq(Event)
    /\ announced \in {"entered", "cleared"}
    /\ threat.threatened <=> LastStatus(emitted, announced) = "entered"
    /\ Alternate(emitted, announced)

\* A trigger on the rows inf and the controller c leaves a row that describes
\* them, and announces the flip if there is one.
LEMMA RefreshStep ==
    ASSUME Pending, NEW inf0 \in States, NEW c0 \in MaybeFaction,
           RowCurrent(threat, inf0, c0),
           NEW inf \in States, NEW c \in MaybeFaction, Refresh(inf, c),
           UNCHANGED announced
    PROVE  /\ Pending'
           /\ RowCurrent(threat', inf, c)
           /\ emitted = <<>> /\ c = c0 => SingleEvent(emitted', c, threat')
<1>1. PICK x \in Challenger(inf, c) :
        /\ threat' = RowOf(threat, c, x, GapTo(inf, c, x))
        /\ emitted' = emitted \o EventsOf(threat, c, x, GapTo(inf, c, x))
  BY DEF Refresh
<1>2. /\ threat' \in ThreatRow /\ RowCurrent(threat', inf, c)
      /\ threat'.threatened = ThreatIn(inf, c)
  BY <1>1, RowOfIsCurrent
<1>3. CASE /\ threat.threatened = ThreatIn(inf, c)
           /\ EventsOf(threat, c, x, GapTo(inf, c, x)) = <<>>
  <2>1. emitted' = emitted
    BY <1>1, <1>3 DEF Pending
  <2>2. Pending'
    BY <1>2, <1>3, <2>1 DEF Pending
  <2>3. emitted = <<>> => SingleEvent(emitted', c, threat')
    BY <2>1 DEF SingleEvent
  <2> QED
    BY <1>2, <2>2, <2>3
<1>4. ASSUME NEW e \in Event,
             EventsOf(threat, c, x, GapTo(inf, c, x)) = <<e>>,
             threat.threatened # ThreatIn(inf, c),
             e.status = "entered" <=> ThreatIn(inf, c),
             e.status = "entered" =>
                e.faction = c /\ e.challenger = x /\ e.gap = GapTo(inf, c, x),
             e.status = "cleared" => e.faction = c0 /\ e.gap <= Threshold
      PROVE  /\ Pending'
             /\ emitted = <<>> /\ c = c0 => SingleEvent(emitted', c, threat')
  <2>1. emitted' = Append(emitted, e)
    BY <1>1, <1>4 DEF Pending
  <2>2. e.status \in {"entered", "cleared"}
    BY DEF Event
  <2>3. LastStatus(emitted, announced) \in {"entered", "cleared"}
    <3>1. CASE emitted = <<>>
      BY <3>1 DEF Pending, LastStatus
    <3>2. CASE emitted # <<>>
      <4>1. emitted[Len(emitted)] \in Event
        BY <3>2 DEF Pending
      <4> QED
        BY <3>2, <4>1 DEF LastStatus, Event
    <3> QED
      BY <3>1, <3>2
  <2>4. threat.threatened \in BOOLEAN /\ ThreatIn(inf, c) \in BOOLEAN
    BY ThreatenedIsThreatIn DEF Pending, ThreatRow
  <2>5. threat.threatened <=> ~ThreatIn(inf, c)
    BY <1>4, <2>4
  <2>6. e.status # LastStatus(emitted, announced)
    BY <1>4, <2>2, <2>3, <2>5 DEF Pending
  <2>7. /\ Alternate(emitted', announced)
        /\ LastStatus(emitted', announced) = e.status
        /\ emitted' \in Seq(Event)
    BY <2>1, <2>6, AlternateAppend DEF Pending
  <2>8. Pending'
    BY <1>2, <1>4, <2>7 DEF Pending
  <2>9. emitted = <<>> /\ c = c0 => SingleEvent(emitted', c, threat')
    <3> SUFFICES ASSUME emitted = <<>>, c = c0 PROVE SingleEvent(emitted', c, threat')
      OBVIOUS
    <3>1. Len(emitted') = 1 /\ DOMAIN emitted' = {1} /\ emitted'[1] = e
      BY <2>1
    <3>2. threat'.challenger = x /\ threat'.gap = GapTo(inf, c, x)
      BY <1>1 DEF RowOf
    <3> QED
      BY <1>4, <2>2, <3>1, <3>2 DEF SingleEvent
  <2> QED
    BY <2>8, <2>9
<1>5. \/ /\ threat.threatened = ThreatIn(inf, c)
         /\ EventsOf(threat, c, x, GapTo(inf, c, x)) = <<>>
      \/ \E e \in Event :
           /\ EventsOf(threat, c, x, GapTo(inf, c, x)) = <<e>>
           /\ threat.threatened # ThreatIn(inf, c)
           /\ e.status = "entered" <=> ThreatIn(inf, c)
           /\ e.status = "entered" =>
                e.faction = c /\ e.challenger = x /\ e.gap = GapTo(inf, c, x)
           /\ e.status = "cleared" => e.faction = c0 /\ e.gap <= Threshold
  BY EventsOfFlip DEF Pending
<1> QED
  BY <1>2, <1>3, <1>4, <1>5

-----------------------------------------------------------------------------
(* The invariant.                                                          *)

\* IInv says of the pending events what Pending says.
LEMMA PendingFromInv == IInv => Pending
BY DEF IInv, TypeOK, Announced, EventsAlternate, Alternate, Pending

\* A statement that keeps Pending and the description of the row, and that
\* leaves an ordinary message either untouched or announced once, keeps IInv.
LEMMA Reassemble ==
    ASSUME IInv, UNCHANGED <<message, saved, historyVars>>,
           step' \in {"cleanup", "sync", "upsert", "commit"},
           influence' \in States, controller' \in MaybeFaction,
           Pending', RowCurrent(threat', influence', controller'),
           step' # "commit" /\ OrdinaryMessage => Tables' = saved /\ emitted' = <<>>,
           step' = "cleanup" => Tables' = saved /\ emitted' = <<>>,
           step' = "commit" /\ OrdinaryMessage => SingleEvent(emitted', controller', threat')
    PROVE  IInv'
<1>1. TypeOK'
  BY DEF IInv, TypeOK, Pending, historyVars
<1>2. RowCurrent(saved.threat, saved.influence, saved.controller)'
  BY DEF IInv
<1>3. Announced' /\ EventsAlternate'
  BY DEF IInv, Announced, Pending, EventsAlternate, Alternate, historyVars
<1>4. OrdinaryMessage' = OrdinaryMessage
  BY DEF OrdinaryMessage
<1>5. (Untouched => Tables = saved /\ emitted = <<>>)'
  BY <1>4 DEF Untouched
<1>6. OrdinaryMessageAnnouncesOnce'
  BY <1>4 DEF OrdinaryMessageAnnouncesOnce, SingleEvent
<1> QED
  BY <1>1, <1>2, <1>3, <1>5, <1>6 DEF IInv

\* DELETE: an ordinary message removes no row.
LEMMA CleanupKeepsInv == IInv /\ CleanupFactionStates => IInv'
<1> SUFFICES ASSUME IInv, CleanupFactionStates PROVE IInv'
  OBVIOUS
<1> DEFINE kept == DOMAIN influence \cap DOMAIN message.states
<1>1. /\ step = "cleanup" /\ step' = "sync"
      /\ influence' = [f \in kept |-> influence[f]]
      /\ IF kept = DOMAIN influence THEN NoRefresh ELSE Refresh(influence', controller)
      /\ UNCHANGED <<controller, message, saved, historyVars>>
  BY DEF CleanupFactionStates
<1>2. influence \in States /\ controller \in MaybeFaction
  BY DEF IInv, TypeOK
<1>3. kept \in SUBSET Factions /\ influence' \in [kept -> Levels]
  BY <1>1, <1>2, StatesElim
<1>4. influence' \in States
  BY <1>3, StatesIntro
<1>5. RowCurrent(threat, influence, controller) /\ Pending
  BY PendingFromInv DEF IInv
<1>6. Tables = saved /\ emitted = <<>>
  BY <1>1 DEF IInv, Untouched
<1>7. CASE kept = DOMAIN influence
  <2>1. influence' = influence
    BY <1>1, <1>2, <1>7, StatesElim
  <2>2. UNCHANGED <<threat, emitted, announced>>
    BY <1>1, <1>7 DEF NoRefresh, historyVars
  <2>3. Pending' /\ RowCurrent(threat', influence', controller')
    BY <1>1, <1>5, <2>1, <2>2 DEF Pending
  <2>4. Tables' = saved /\ emitted' = <<>>
    BY <1>1, <1>6, <2>1, <2>2 DEF Tables
  <2> QED
    BY <1>1, <1>2, <1>4, <2>3, <2>4, Reassemble
<1>8. CASE kept # DOMAIN influence
  <2>1. Refresh(influence', controller) /\ UNCHANGED <<controller, announced>>
    BY <1>1, <1>8 DEF historyVars
  <2>2. Pending' /\ RowCurrent(threat', influence', controller')
    BY <1>2, <1>4, <1>5, <2>1, RefreshStep
  <2>3. ~OrdinaryMessage
    <3>1. DOMAIN saved.influence = DOMAIN influence
      BY <1>6 DEF Tables
    <3> QED
      BY <1>8, <3>1 DEF OrdinaryMessage
  <2> QED
    BY <1>1, <1>2, <1>4, <2>2, <2>3, Reassemble
<1> QED
  BY <1>7, <1>8

\* UPDATE of the controller: an ordinary message keeps it.
LEMMA SyncKeepsInv == IInv /\ SyncSystemControllingFaction => IInv'
<1> SUFFICES ASSUME IInv, SyncSystemControllingFaction PROVE IInv'
  OBVIOUS
<1>1. /\ step = "sync" /\ step' = "upsert"
      /\ controller' = Coalesce(message.controller, controller, NoFaction)
      /\ IF controller' = controller THEN NoRefresh ELSE Refresh(influence, controller')
      /\ UNCHANGED <<influence, message, saved, historyVars>>
  BY DEF SyncSystemControllingFaction
<1>2. influence \in States /\ controller \in MaybeFaction
  BY DEF IInv, TypeOK
<1>3. controller' \in MaybeFaction
  <2>1. message.controller \in MaybeFaction
    BY DEF IInv, TypeOK, Messages, NoMessage, MaybeFaction
  <2> QED
    BY <1>1, <1>2, <2>1 DEF Coalesce
<1>4. RowCurrent(threat, influence, controller) /\ Pending
  BY PendingFromInv DEF IInv
<1>5. OrdinaryMessage => Tables = saved /\ emitted = <<>>
  BY <1>1 DEF IInv, Untouched
<1>6. CASE controller' = controller
  <2>1. UNCHANGED <<threat, emitted, announced>>
    BY <1>1, <1>6 DEF NoRefresh, historyVars
  <2>2. Pending' /\ RowCurrent(threat', influence', controller')
    BY <1>1, <1>4, <1>6, <2>1 DEF Pending
  <2>3. Tables' = Tables /\ emitted' = emitted
    BY <1>1, <1>6, <2>1 DEF Tables
  <2> QED
    BY <1>1, <1>2, <1>3, <1>5, <2>2, <2>3, Reassemble
<1>7. CASE controller' # controller
  <2>1. Refresh(influence, controller') /\ UNCHANGED <<influence, announced>>
    BY <1>1, <1>7 DEF historyVars
  <2>2. Pending' /\ RowCurrent(threat', influence', controller')
    BY <1>2, <1>3, <1>4, <2>1, RefreshStep
  <2>3. ~OrdinaryMessage
    <3>1. OrdinaryMessage => saved.controller = controller
      BY <1>5 DEF Tables
    <3>2. message.controller # NoFaction /\ message.controller # controller
      BY <1>1, <1>7 DEF Coalesce
    <3> QED
      BY <3>1, <3>2 DEF OrdinaryMessage
  <2> QED
    BY <1>1, <1>2, <1>3, <2>2, <2>3, Reassemble
<1> QED
  BY <1>6, <1>7

\* The upsert of all listed factions: an ordinary message is announced here.
LEMMA UpsertKeepsInv == IInv /\ UpsertFactionStates => IInv'
<1> SUFFICES ASSUME IInv, UpsertFactionStates PROVE IInv'
  OBVIOUS
<1>1. /\ step = "upsert" /\ step' = "commit"
      /\ influence' = Upserted(message.states)
      /\ \/ Refresh(influence', controller)
         \/ influence' = influence /\ NoRefresh
      /\ UNCHANGED <<controller, message, saved, historyVars>>
  BY DEF UpsertFactionStates
<1>2. influence \in States /\ controller \in MaybeFaction
  BY DEF IInv, TypeOK
<1>3. influence' \in States
  <2>1. message.states \in States
    <3>1. CASE message \in Messages
      BY <3>1 DEF Messages
    <3>2. CASE message = NoMessage
      <4>1. message.states \in [{} -> Levels]
        BY <3>2 DEF NoMessage
      <4> QED
        BY <4>1, StatesIntro
    <3> QED
      BY <3>1, <3>2 DEF IInv, TypeOK
  <2>2. /\ DOMAIN influence \in SUBSET Factions /\ influence \in [DOMAIN influence -> Levels]
        /\ DOMAIN message.states \in SUBSET Factions
        /\ message.states \in [DOMAIN message.states -> Levels]
    BY <1>2, <2>1, StatesElim
  <2>3. Upserted(message.states)
          \in [DOMAIN influence \cup DOMAIN message.states -> Levels]
    BY <2>2 DEF Upserted
  <2>4. DOMAIN influence \cup DOMAIN message.states \in SUBSET Factions
    BY <2>2
  <2> QED
    BY <1>1, <2>3, <2>4, StatesIntro
<1>4. RowCurrent(threat, influence, controller) /\ Pending
  BY PendingFromInv DEF IInv
<1>5. OrdinaryMessage => emitted = <<>>
  BY <1>1 DEF IInv, Untouched
<1>6. UNCHANGED <<controller, announced>>
  BY <1>1 DEF historyVars
<1>7. CASE Refresh(influence', controller)
  <2>1. /\ Pending' /\ RowCurrent(threat', influence', controller)
        /\ emitted = <<>> => SingleEvent(emitted', controller, threat')
    BY <1>2, <1>3, <1>4, <1>6, <1>7, RefreshStep
  <2> QED
    BY <1>1, <1>2, <1>3, <1>5, <1>6, <2>1, Reassemble
<1>8. CASE influence' = influence /\ NoRefresh
  <2>1. Pending' /\ RowCurrent(threat', influence', controller')
    BY <1>4, <1>6, <1>8 DEF Pending, NoRefresh
  <2>2. emitted = <<>> => SingleEvent(emitted', controller', threat')
    BY <1>8 DEF SingleEvent, NoRefresh
  <2> QED
    BY <1>1, <1>2, <1>3, <1>5, <1>6, <2>1, <2>2, Reassemble
<1> QED
  BY <1>1, <1>7, <1>8

\* A message arrives: the tables are the committed ones.
LEMMA BeginKeepsInv == ASSUME IInv, NEW m \in Messages, Begin(m) PROVE IInv'
<1>1. /\ step = "none" /\ step' = "cleanup" /\ message' = m
      /\ UNCHANGED <<tableVars, emitted, saved, historyVars>>
  BY DEF Begin
<1>2. Tables' = saved' /\ emitted' = <<>>
  BY <1>1 DEF IInv, Untouched, Tables, tableVars
<1>3. TypeOK'
  BY <1>1 DEF IInv, TypeOK, tableVars, historyVars
<1>4. /\ RowCurrent(threat, influence, controller)'
      /\ RowCurrent(saved.threat, saved.influence, saved.controller)'
      /\ Announced' /\ EventsAlternate'
  BY <1>1 DEF IInv, RowCurrent, Announced, EventsAlternate, tableVars, historyVars
<1>5. OrdinaryMessageAnnouncesOnce'
  BY <1>1 DEF OrdinaryMessageAnnouncesOnce
<1> QED
  BY <1>2, <1>3, <1>4, <1>5 DEF IInv

\* What the transaction announced becomes what the system has announced.
LEMMA CommitKeepsInv == IInv /\ Commit => IInv'
<1> SUFFICES ASSUME IInv, Commit PROVE IInv'
  OBVIOUS
<1>1. /\ step = "commit" /\ step' = "none" /\ message' = NoMessage /\ emitted' = <<>>
      /\ saved' = Tables /\ UNCHANGED tableVars
  BY DEF Commit
<1>2. announced' = LastStatus(emitted, announced)
  BY DEF Commit, LastStatus
<1>3. announced' \in {"entered", "cleared"}
  <2>1. CASE emitted = <<>>
    BY <1>2, <2>1 DEF IInv, TypeOK, LastStatus
  <2>2. CASE emitted # <<>>
    <3>1. emitted[Len(emitted)] \in Event
      BY <2>2 DEF IInv, TypeOK
    <3> QED
      BY <1>2, <2>2, <3>1 DEF LastStatus, Event
  <2> QED
    BY <2>1, <2>2
<1>4. heard' \in [Factions -> {"entered", "cleared"}]
  BY DEF Commit, IInv, TypeOK
<1>5. TypeOK'
  BY <1>1, <1>3, <1>4 DEF IInv, TypeOK, Tables, tableVars
<1>6. saved'.threat = threat' /\ saved'.influence = influence' /\ saved'.controller = controller'
  BY <1>1 DEF Tables, tableVars
<1>7. RowCurrent(threat', influence', controller')
  BY <1>1 DEF IInv, tableVars
<1>8. Announced'
  BY <1>1, <1>2, <1>6 DEF IInv, Announced, LastStatus, tableVars
<1>9. EventsAlternate' /\ OrdinaryMessageAnnouncesOnce'
  BY <1>1 DEF EventsAlternate, OrdinaryMessageAnnouncesOnce
<1>10. Tables' = saved'
  BY <1>1 DEF Tables, tableVars
<1> QED
  BY <1>1, <1>5, <1>6, <1>7, <1>8, <1>9, <1>10 DEF IInv

\* A rollback takes row, events and what they are about back together.
LEMMA AbortKeepsInv == IInv /\ Abort => IInv'
<1> SUFFICES ASSUME IInv, Abort PROVE IInv'
  OBVIOUS
<1>1. /\ step' = "none" /\ message' = NoMessage /\ emitted' = <<>>
      /\ influence' = saved.influence /\ controller' = saved.controller
      /\ threat' = saved.threat
      /\ UNCHANGED <<saved, historyVars>>
  BY DEF Abort
<1>2. TypeOK'
  BY <1>1 DEF IInv, TypeOK, historyVars
<1>3. /\ RowCurrent(threat', influence', controller')
      /\ RowCurrent(saved.threat, saved.influence, saved.controller)'
  BY <1>1 DEF IInv
<1>4. Announced'
  BY <1>1 DEF IInv, Announced, LastStatus, historyVars
<1>5. EventsAlternate' /\ OrdinaryMessageAnnouncesOnce'
  BY <1>1 DEF EventsAlternate, OrdinaryMessageAnnouncesOnce
<1>6. Tables' = saved'
  BY <1>1 DEF IInv, TypeOK, Tables
<1> QED
  BY <1>1, <1>2, <1>3, <1>4, <1>5, <1>6 DEF IInv

\* The migration leaves every system with a current row or, without a state of
\* its controller, none.
LEMMA InitHasInv == Init => IInv
<1> SUFFICES ASSUME Init PROVE IInv
  OBVIOUS
<1> USE DEF Init
<1>1. influence \in States /\ controller \in MaybeFaction
  OBVIOUS
<1>2. threat \in ThreatRow /\ RowCurrent(threat, influence, controller)
  <2>1. CASE controller \notin DOMAIN influence
    <3>1. threat = NoRow
      BY <2>1 DEF Backfilled
    <3> QED
      BY <2>1, <3>1 DEF NoRow, ThreatRow, MaybeFaction, MaybeGap, RowCurrent
  <2>2. CASE controller \in DOMAIN influence
    <3>1. PICK x \in Challenger(influence, controller) :
            threat = RowOf(NoRow, controller, x, GapTo(influence, controller, x))
      BY <2>2 DEF Backfilled
    <3> QED
      BY <1>1, <3>1, RowOfIsCurrent
  <2> QED
    BY <2>1, <2>2
<1>3. announced \in {"entered", "cleared"} /\ heard \in [Factions -> {"entered", "cleared"}]
  OBVIOUS
<1>4. saved.threat = threat /\ saved.influence = influence /\ saved.controller = controller
  BY DEF Tables
<1>5. TypeOK
  BY <1>1, <1>2, <1>3 DEF TypeOK, Tables
<1>6. threat.threatened <=> announced = "entered"
  OBVIOUS
<1>7. Announced
  BY <1>4, <1>6 DEF Announced, LastStatus
<1>8. EventsAlternate /\ OrdinaryMessageAnnouncesOnce
  BY DEF EventsAlternate, OrdinaryMessageAnnouncesOnce
<1> QED
  BY <1>2, <1>4, <1>5, <1>7, <1>8 DEF IInv

\* The invariant holds at every statement of every sequence of messages.
THEOREM ThreatInvariant == Spec => []IInv
<1>1. IInv /\ [Next]_vars => IInv'
  <2> SUFFICES ASSUME IInv, [Next]_vars PROVE IInv'
    OBVIOUS
  <2>1. CASE Next
    BY <2>1, BeginKeepsInv, CleanupKeepsInv, SyncKeepsInv, UpsertKeepsInv, CommitKeepsInv,
       AbortKeepsInv DEF Next
  <2>2. CASE UNCHANGED vars
    <3>1. TypeOK'
      BY <2>2 DEF IInv, TypeOK, vars, tableVars, historyVars
    <3>2. Untouched' = Untouched /\ Tables' = Tables
      BY <2>2 DEF Untouched, OrdinaryMessage, Tables, vars, tableVars, historyVars
    <3>3. OrdinaryMessageAnnouncesOnce' /\ EventsAlternate' /\ Announced'
      BY <2>2 DEF IInv, OrdinaryMessageAnnouncesOnce, OrdinaryMessage, EventsAlternate, Announced,
                  LastStatus, vars, tableVars, historyVars
    <3> QED
      BY <2>2, <3>1, <3>2, <3>3 DEF IInv, vars, tableVars, historyVars
  <2> QED
    BY <2>1, <2>2
<1> QED
  BY <1>1, InitHasInv, PTL DEF Spec

\* Tables, messages and events stay well typed; that events are complete
\* rests on the row being current.
THEOREM TypeCorrect == Spec => []TypeOK
<1>1. IInv => TypeOK
  BY DEF IInv
<1> QED
  BY <1>1, ThreatInvariant, PTL

\* The threat row is never stale, for any factions, influences and threshold.
THEOREM ThreatRowIsCurrentAlways == Spec => []ThreatRowIsCurrent
<1>1. IInv => ThreatRowIsCurrent
  BY DEF IInv, RowCurrent, ThreatRowIsCurrent, UnderThreat
<1> QED
  BY <1>1, ThreatInvariant, PTL

\* 'entered' and 'cleared' alternate over the whole life of a system.
THEOREM EventsAlternateAlways == Spec => []EventsAlternate
<1>1. IInv => EventsAlternate
  BY DEF IInv
<1> QED
  BY <1>1, ThreatInvariant, PTL

\* Between transactions the last event of a system tells the truth about it.
THEOREM AnnouncedIsCurrentAlways == Spec => []AnnouncedIsCurrent
<1>1. ASSUME IInv PROVE AnnouncedIsCurrent
  <2> SUFFICES ASSUME step = "none" PROVE announced = "entered" <=> UnderThreat
    BY DEF AnnouncedIsCurrent
  <2>1. Tables = saved
    BY <1>1 DEF IInv, Untouched
  <2>2. threat.threatened <=> announced = "entered"
    BY <1>1, <2>1 DEF IInv, Announced, Tables
  <2>3. threat.threatened <=> ThreatIn(influence, controller)
    <3>1. CASE threat.exists
      BY <1>1, <3>1 DEF IInv, RowCurrent
    <3>2. CASE ~threat.exists
      <4>1. ~threat.threatened /\ Challengers(influence, controller) = {}
        BY <1>1, <3>2 DEF IInv, RowCurrent, Challengers
      <4> QED
        BY <4>1 DEF ThreatIn
    <3> QED
      BY <3>1, <3>2
  <2> QED
    BY <2>2, <2>3 DEF UnderThreat
<1> QED
  BY <1>1, ThreatInvariant, PTL

\* A message that keeps the controller and the factions of a system is
\* announced at most once, with the numbers of the state that it commits.
THEOREM OrdinaryMessageAnnouncesOnceAlways == Spec => []OrdinaryMessageAnnouncesOnce
<1>1. IInv => OrdinaryMessageAnnouncesOnce
  BY DEF IInv
<1> QED
  BY <1>1, ThreatInvariant, PTL

=============================================================================
