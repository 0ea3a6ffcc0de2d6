----------------------------- MODULE SseBroker -----------------------------
(***************************************************************************)
(* SseBroker (apps/api/src/realtime/sse/sseBroker.ts): the SSE connections *)
(* of one API process, the index that routes Redis events to them, and the *)
(* bounded queue of frames of each, emptied by one flush loop.             *)
(*                                                                         *)
(* registerConnection awaits the increments of its demand; a flush loop    *)
(* awaits each write.  Everything else runs without interruption.  The     *)
(* demand manager is seen through its calls, the response through the      *)
(* outcome of its writes and its 'close' event; openRealtimeSseConnection  *)
(* (sseService.ts) attaches the 'close' listeners once registration has    *)
(* resolved.                                                               *)
(***************************************************************************)
EXTENDS Naturals, Sequences, FiniteSets

CONSTANTS
    Conns,        \* connection ids
    Keys,         \* channel keys, "<eventType>:<routingKey>"
    Routes,       \* the channel keys of a connection
    MaxMessages,  \* MAX_QUEUE_MESSAGES
    MaxBytes,     \* MAX_QUEUE_BYTES
    EventSizes,   \* sizes of event frames; a comment frame has size 1
    MaxEvents     \* bound: events routed to one connection

ASSUME BrokerAssumption ==
    /\ Routes \in [Conns -> SUBSET Keys]
    /\ MaxMessages \in Nat \ {0}
    /\ MaxBytes \in Nat
    /\ EventSizes \subseteq Nat \ {0}
    /\ MaxEvents \in Nat

VARIABLES
    conn,         \* SseConnection records, see Connection
    phase,        \* progress of registerConnection
    index,        \* connectionIdsByChannelKey
    isDown,       \* closeAllConnections has been called
    deaf          \* history: the response ended and closed, and no listener heard it

vars == <<conn, phase, index, isDown, deaf>>

Frame == [event : BOOLEAN, id : Nat, size : Nat]
Comment == [event |-> FALSE, id |-> 0, size |-> 1]
EventFrame(id, size) == [event |-> TRUE, id |-> id, size |-> size]

Connection ==
    [queue      : Seq(Frame),
     bytes      : Nat,                        \* queuedBytes
     flushing   : BOOLEAN,                    \* isFlushing
     awaiting   : {"none", "write", "doomed", "skip"},  \* the writeFrame the loop awaits
     closed     : BOOLEAN,                    \* isClosed
     timer      : BOOLEAN,                    \* the heartbeat interval runs
     nextId     : Nat \ {0},                  \* nextEventId
     ended      : BOOLEAN,                    \* response.writableEnded
     gone       : BOOLEAN,                    \* the response has emitted 'close'
     wire       : Seq(Nat),                   \* history: ids of the events written
     increments : Nat,                        \* history: calls per routing key
     decrements : Nat]

NewConnection ==
    [queue |-> <<>>, bytes |-> 0, flushing |-> FALSE, awaiting |-> "none",
     closed |-> FALSE, timer |-> FALSE, nextId |-> 1, ended |-> FALSE,
     gone |-> FALSE, wire |-> <<>>, increments |-> 0, decrements |-> 0]

TypeOK ==
    /\ conn \in [Conns -> Connection]
    /\ phase \in [Conns -> {"new", "registering", "registered", "rejected"}]
    /\ index \in [Keys -> SUBSET Conns]
    /\ isDown \in BOOLEAN
    /\ deaf \in [Conns -> BOOLEAN]

Init ==
    /\ conn = [c \in Conns |-> NewConnection]
    /\ phase = [c \in Conns |-> "new"]
    /\ index = [k \in Keys |-> {}]
    /\ isDown = FALSE
    /\ deaf = [c \in Conns |-> FALSE]

-----------------------------------------------------------------------------
(* What the methods do to one connection r.                                *)

\* Mutant of Cleanup: it is not idempotent.
CleanupAgain(r) ==
    [r EXCEPT !.closed = TRUE, !.timer = FALSE, !.queue = <<>>, !.bytes = 0,
              !.ended = TRUE, !.decrements = @ + 1]

\* cleanupConnection up to its await.
Cleanup(r) ==
    IF r.closed THEN r
    ELSE [r EXCEPT !.closed = TRUE, !.timer = FALSE, !.queue = <<>>, !.bytes = 0,
                   !.ended = TRUE, !.decrements = @ + 1]

\* One turn of the flush loop of an open connection, up to the await of
\* writeFrame, or its end.  A response that has ended swallows the frame, one
\* that the client has left fails it.
FlushTurn(r) ==
    IF r.queue = <<>>
    THEN [r EXCEPT !.flushing = FALSE, !.awaiting = "none"]
    ELSE LET frame == Head(r.queue) IN
         [r EXCEPT !.flushing = TRUE,
                   !.queue = Tail(@),
                   !.bytes = @ - frame.size,
                   !.awaiting = IF r.ended THEN "skip"
                                ELSE IF r.gone THEN "doomed" ELSE "write",
                   !.wire = IF frame.event /\ ~r.ended THEN Append(@, frame.id) ELSE @]

Overflows(r, frame) ==
    Len(r.queue) + 1 > MaxMessages \/ r.bytes + frame.size > MaxBytes

\* Mutant of Enqueue: a frame that finds the queue full is dropped.
EnqueueDrops(r, frame) ==
    IF r.closed \/ Overflows(r, frame) THEN r
    ELSE LET queued == [r EXCEPT !.queue = Append(@, frame), !.bytes = @ + frame.size] IN
         IF queued.flushing THEN queued ELSE FlushTurn(queued)

\* Mutant of Enqueue: a frame that finds the loop idle is not counted.
EnqueueUncounted(r, frame) ==
    IF r.closed THEN r
    ELSE IF Overflows(r, frame) THEN Cleanup(r)
    ELSE IF r.flushing
    THEN [r EXCEPT !.queue = Append(@, frame), !.bytes = @ + frame.size]
    ELSE FlushTurn([r EXCEPT !.queue = Append(@, frame)])

\* enqueueRawFrame: a slow client is closed, an idle flush loop starts.
Enqueue(r, frame) ==
    IF r.closed THEN r
    ELSE IF Overflows(r, frame) THEN Cleanup(r)
    ELSE LET queued == [r EXCEPT !.queue = Append(@, frame), !.bytes = @ + frame.size] IN
         IF queued.flushing THEN queued ELSE FlushTurn(queued)

\* An event that passed the filters takes the next id.
Route(r, size) ==
    Enqueue([r EXCEPT !.nextId = @ + 1], EventFrame(r.nextId, size))

-----------------------------------------------------------------------------

\* connectionsById
ById == {c \in Conns : phase[c] # "new" /\ ~conn[c].closed}

\* Mutant of Become: the index keeps a connection that was cleaned up.
BecomeStillIndexed(new) == conn' = new /\ UNCHANGED index

\* The connections become new; those it cleans up leave the index.
Become(new) ==
    /\ conn' = new
    /\ index' = [k \in Keys |-> {c \in index[k] : ~new[c].closed}]

\* registerConnection up to the await of its increments: the connection can
\* be routed to already.
Register(c) ==
    /\ phase[c] = "new"
    /\ phase' = [phase EXCEPT ![c] = "registering"]
    /\ conn' = [conn EXCEPT ![c].increments = @ + 1]
    /\ index' = [k \in Keys |->
                   IF k \in Routes[c] THEN index[k] \cup {c} ELSE index[k]]
    /\ UNCHANGED <<isDown, deaf>>

\* The rest of it, and the listeners of openRealtimeSseConnection.  The
\* interval starts whether or not the connection was closed meanwhile.
Registered(c) ==
    LET greeted == Enqueue(Enqueue(conn[c], Comment), Comment) IN
    /\ phase[c] = "registering"
    /\ phase' = [phase EXCEPT ![c] = "registered"]
    /\ Become([conn EXCEPT ![c] = [greeted EXCEPT !.timer = TRUE]])
    /\ deaf' = [deaf EXCEPT ![c] = conn[c].ended /\ conn[c].gone]
    /\ UNCHANGED isDown

\* An increment rejects: the connection is cleaned up and the response ended.
RegistrationFails(c) ==
    /\ phase[c] = "registering"
    /\ phase' = [phase EXCEPT ![c] = "rejected"]
    /\ Become([conn EXCEPT ![c] = Cleanup(conn[c])])
    /\ UNCHANGED <<isDown, deaf>>

\* routeEvent: a subset of the indexed connections passes the filters.
RouteEvent(k, matching, size) ==
    /\ matching # {}
    /\ \A c \in matching : conn[c].nextId <= MaxEvents
    /\ Become([c \in Conns |-> IF c \in matching THEN Route(conn[c], size) ELSE conn[c]])
    /\ UNCHANGED <<phase, isDown, deaf>>

\* The heartbeat interval fires.
Keepalive(c) ==
    /\ conn[c].timer
    /\ Become([conn EXCEPT ![c] = Enqueue(conn[c], Comment)])
    /\ UNCHANGED <<phase, isDown, deaf>>

\* Mutant of Written: after the write the loop stops instead of looking again.
WrittenOnce(r) == [r EXCEPT !.flushing = FALSE, !.awaiting = "none"]

\* flushConnectionQueue after an await of writeFrame.
Written(r) ==
    IF r.closed THEN [r EXCEPT !.flushing = FALSE, !.awaiting = "none"] ELSE FlushTurn(r)

\* The write callback arrives, or writeFrame had nothing to do.
WriteDone(c) ==
    /\ conn[c].awaiting \in {"write", "skip"}
    /\ Become([conn EXCEPT ![c] = Written(conn[c])])
    /\ UNCHANGED <<phase, isDown, deaf>>

\* Mutant of WriteFails: the error is swallowed and the connection stays.
WriteFailsSilently(c) ==
    /\ conn[c].awaiting \in {"write", "doomed"}
    /\ Become([conn EXCEPT ![c].flushing = FALSE, ![c].awaiting = "none"])
    /\ UNCHANGED <<phase, isDown, deaf>>

\* The write callback reports an error or the write timeout comes first.
\* (isFlushing is reset when the decrements have resolved; nothing reads it
\* of a closed connection.)
WriteFails(c) ==
    /\ conn[c].awaiting \in {"write", "doomed"}
    /\ Become([conn EXCEPT ![c] =
                 [Cleanup(conn[c]) EXCEPT !.flushing = FALSE, !.awaiting = "none"]])
    /\ UNCHANGED <<phase, isDown, deaf>>

\* The response emits 'close'.
ResponseClose(c) ==
    /\ phase[c] # "new"
    /\ ~conn[c].gone
    /\ LET left == [conn[c] EXCEPT !.gone = TRUE] IN
        Become([conn EXCEPT ![c] =
                  IF phase[c] = "registered" THEN Cleanup(left) ELSE left])
    /\ UNCHANGED <<phase, isDown, deaf>>

\* The quota lease is lost: its heartbeat ends the response.
LeaseLost(c) ==
    /\ phase[c] \in {"registering", "registered"}
    /\ ~conn[c].ended
    /\ conn' = [conn EXCEPT ![c].ended = TRUE]
    /\ deaf' = [deaf EXCEPT ![c] = conn[c].gone /\ phase[c] = "registered"]
    /\ UNCHANGED <<phase, index, isDown>>

\* closeAllConnections: those of the moment, not those that still register.
CloseAll ==
    /\ ~isDown
    /\ isDown' = TRUE
    /\ Become([c \in Conns |-> IF c \in ById THEN Cleanup(conn[c]) ELSE conn[c]])
    /\ UNCHANGED <<phase, deaf>>

WriteSettles(c) == WriteDone(c) \/ WriteFails(c)

Next ==
    \/ \E c \in Conns :
        \/ Register(c) \/ Registered(c) \/ RegistrationFails(c)
        \/ Keepalive(c) \/ WriteSettles(c)
        \/ ResponseClose(c) \/ LeaseLost(c)
    \/ \E k \in Keys, size \in EventSizes : \E matching \in SUBSET index[k] :
          RouteEvent(k, matching, size)
    \/ CloseAll

\* The increments resolve (the subscriber reconnects for ever), every write
\* ends within its timeout, and intervals fire.  Clients and events owe nothing.
Fairness ==
    \A c \in Conns : WF_vars(Registered(c)) /\ WF_vars(WriteSettles(c)) /\ WF_vars(Keepalive(c))

Spec == Init /\ [][Next]_vars
FairSpec == Spec /\ Fairness

-----------------------------------------------------------------------------
(* Properties.                                                             *)

\* An event finds every open connection that asked for its channel, from the
\* moment it registers, and no closed one, whatever closed it in between.
IndexIsExact ==
    \A k \in Keys : index[k] = {c \in ById : k \in Routes[c]}

\* The demand of a connection is given up exactly once, when it is closed,
\* though errors, backpressure, close events and shutdown all clean up (test
\* "cleanup is idempotent and decrements demand once per routing key").
DemandReleasedOnce ==
    \A c \in Conns :
        /\ conn[c].increments = IF phase[c] = "new" THEN 0 ELSE 1
        /\ conn[c].decrements = IF conn[c].closed THEN 1 ELSE 0

EventPlaces(queue) == {i \in DOMAIN queue : queue[i].event}

\* The events written are 1, 2, ...; those queued for an open connection are
\* the ones that follow, up to the last that was numbered.
InOrder(r) ==
    /\ \A i \in DOMAIN r.wire : r.wire[i] = i
    /\ ~r.closed /\ ~r.ended =>
          /\ Len(r.wire) < r.nextId
          /\ {r.queue[i].id : i \in EventPlaces(r.queue)} = (Len(r.wire) + 1)..(r.nextId - 1)
          /\ \A i, j \in EventPlaces(r.queue) : i < j => r.queue[i].id < r.queue[j].id

\* A client sees the events of its connection in order and without a gap, and
\* of an open connection every event is written or queued: a slow client is
\* closed, it never misses an event in silence.
EventsInOrder == \A c \in Conns : InOrder(conn[c])

\* Frames wait only where a flush loop runs, and it runs only while it awaits a
\* write.
HasLoop(r) ==
    /\ r.queue # <<>> => r.flushing
    /\ r.flushing <=> r.awaiting # "none"

\* The bytes of the frames of a queue, each with the place of its frame.
BytesAt(queue, i) == {i} \X (1..queue[i].size)
QueuedBytes(queue) == UNION {BytesAt(queue, i) : i \in DOMAIN queue}

\* No frame waits without a flush loop that will take it, and queuedBytes is
\* the size of the queue, through every end and restart of the loop.
QueueIsServed ==
    \A c \in Conns :
        /\ HasLoop(conn[c])
        /\ conn[c].bytes = Cardinality(QueuedBytes(conn[c].queue))

\* A client that has left is forgotten, even when it left during registration
\* and no listener heard it: a later frame fails.  The exception is a response
\* whose 'close' nobody heard and that the lease heartbeat has ended: the broker
\* believes its frames written, and it stays for ever.
GoneIsForgotten ==
    \A c \in Conns : conn[c].gone ~> conn[c].closed \/ deaf[c]

=============================================================================
