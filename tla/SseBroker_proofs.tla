-------------------------- MODULE SseBroker_proofs --------------------------
(***************************************************************************)
(* Proofs about the SSE broker for any connections, channels and limits:   *)
(* the index is exact, demand is given up once, no frame waits for a flush *)
(* loop that has stopped, events are written in order and without a gap,   *)
(* and queuedBytes is the size of the queue.                               *)
(***************************************************************************)
EXTENDS SseBroker, FiniteSetTheorems, FunctionTheorems, TLAPS

\* A connection record but for the sign of queuedBytes, which follows from its
\* being the size of the queue, at the end of this module.
Shape ==
    [queue : Seq(Frame), bytes : Int, flushing : BOOLEAN,
     awaiting : {"none", "write", "doomed", "skip"},
     closed : BOOLEAN, timer : BOOLEAN, nextId : Nat \ {0},
     ended : BOOLEAN, gone : BOOLEAN, wire : Seq(Nat),
     increments : Nat, decrements : Nat]

\* What holds of every connection record between two steps.
Sound(r) ==
    /\ r \in Shape
    /\ HasLoop(r)
    /\ r.closed => r.decrements = 1 /\ r.queue = <<>>
    /\ ~r.closed => r.decrements = 0

\* s is a later state of the record r: a closed connection stays closed.
Later(r, s) ==
    /\ Sound(s)
    /\ s.increments = r.increments
    /\ r.closed => s.closed

IInv ==
    /\ conn \in [Conns -> Shape]
    /\ phase \in [Conns -> {"new", "registering", "registered", "rejected"}]
    /\ index \in [Keys -> SUBSET Conns]
    /\ \A c \in Conns :
        /\ Sound(conn[c])
        /\ phase[c] = "new" => conn[c] = NewConnection
        /\ phase[c] # "new" => conn[c].increments = 1
    /\ IndexIsExact

-----------------------------------------------------------------------------
(* What the methods do to a connection record.                             *)

\* cleanupConnection closes a connection and gives its demand up once.
LEMMA CleanupSound ==
    ASSUME NEW r, Sound(r)
    PROVE  Later(r, Cleanup(r)) /\ Cleanup(r).closed
<1>1. CASE r.closed
  BY <1>1 DEF Cleanup, Later
<1>2. CASE ~r.closed
  <2> DEFINE s == [r EXCEPT !.closed = TRUE, !.timer = FALSE, !.queue = <<>>, !.bytes = 0,
                            !.ended = TRUE, !.decrements = @ + 1]
  <2>1. Cleanup(r) = s
    BY <1>2 DEF Cleanup
  <2>2. s \in Shape
    <3>1. r \in Shape /\ <<>> \in Seq(Frame) /\ 0 \in Int /\ r.decrements + 1 \in Nat
      BY DEF Sound, Shape
    <3> QED
      BY <3>1, Zenon DEF Shape
  <2>3. /\ s.closed /\ s.queue = <<>> /\ s.decrements = 1
        /\ s.increments = r.increments
        /\ s.flushing = r.flushing /\ s.awaiting = r.awaiting
    BY <1>2 DEF Sound, Shape
  <2> HIDE DEF s
  <2> QED
    BY <2>1, <2>2, <2>3 DEF Later, Sound, HasLoop
<1> QED
  BY <1>1, <1>2

\* A turn of the flush loop of an open connection takes a frame and awaits its
\* write, or stops at an empty queue.  It needs no loop to be running.
LEMMA FlushTurnSound ==
    ASSUME NEW r \in Shape, ~r.closed, r.decrements = 0
    PROVE  Later(r, FlushTurn(r)) /\ ~FlushTurn(r).closed
<1>1. CASE r.queue = <<>>
  <2> DEFINE s == [r EXCEPT !.flushing = FALSE, !.awaiting = "none"]
  <2>1. FlushTurn(r) = s
    BY <1>1 DEF FlushTurn
  <2>2. s \in Shape
    BY DEF Shape
  <2>3. /\ ~s.closed /\ s.queue = <<>> /\ s.decrements = 0
        /\ s.increments = r.increments
        /\ ~s.flushing /\ s.awaiting = "none"
    BY <1>1 DEF Shape
  <2> HIDE DEF s
  <2> QED
    BY <2>1, <2>2, <2>3 DEF Later, Sound, HasLoop
<1>2. CASE r.queue # <<>>
  <2> DEFINE frame == Head(r.queue)
             awaited == IF r.ended THEN "skip" ELSE IF r.gone THEN "doomed" ELSE "write"
             written == IF frame.event /\ ~r.ended THEN Append(r.wire, frame.id) ELSE r.wire
             s == [r EXCEPT !.flushing = TRUE, !.queue = Tail(r.queue),
                            !.bytes = r.bytes - frame.size,
                            !.awaiting = awaited, !.wire = written]
  <2>1. FlushTurn(r) = s
    BY <1>2 DEF FlushTurn, Shape
  <2>2. frame \in Frame /\ Tail(r.queue) \in Seq(Frame)
    BY <1>2 DEF Shape
  <2>3. awaited \in {"write", "doomed", "skip"}
    OBVIOUS
  <2>4. written \in Seq(Nat)
    BY <2>2 DEF Shape, Frame
  <2>5. r.bytes - frame.size \in Int
    BY <2>2 DEF Shape, Frame
  <2> HIDE DEF frame, awaited, written
  <2>6. s \in Shape
    BY <2>2, <2>3, <2>4, <2>5 DEF Shape
  <2>7. /\ ~s.closed /\ s.decrements = 0 /\ s.increments = r.increments
        /\ s.flushing /\ s.awaiting # "none"
    BY <2>3 DEF Shape
  <2> HIDE DEF s
  <2> QED
    BY <2>1, <2>6, <2>7 DEF Later, Sound, HasLoop
<1> QED
  BY <1>1, <1>2

\* enqueueRawFrame: a frame is queued behind a loop that runs, starts one, or
\* closes the connection.
LEMMA EnqueueSound ==
    ASSUME NEW r, Sound(r), NEW frame \in Frame
    PROVE  Later(r, Enqueue(r, frame))
<1>1. CASE r.closed
  BY <1>1 DEF Enqueue, Later
<1>2. CASE ~r.closed /\ Overflows(r, frame)
  BY <1>2, CleanupSound DEF Enqueue
<1>3. CASE ~r.closed /\ ~Overflows(r, frame)
  <2> DEFINE q == [r EXCEPT !.queue = Append(@, frame), !.bytes = @ + frame.size]
  <2>1. Enqueue(r, frame) = IF q.flushing THEN q ELSE FlushTurn(q)
    BY <1>3 DEF Enqueue
  <2>2. r \in Shape /\ frame.size \in Int
    BY DEF Sound, Frame
  <2>3. q \in Shape
    <3>1. Append(r.queue, frame) \in Seq(Frame) /\ r.bytes + frame.size \in Int
      BY <2>2 DEF Shape
    <3> QED
      BY <2>2, <3>1, Zenon DEF Shape
  <2>4. /\ ~q.closed /\ q.decrements = 0 /\ q.increments = r.increments
        /\ q.flushing = r.flushing /\ q.awaiting = r.awaiting
    BY <1>3, <2>2 DEF Sound, Shape
  <2> HIDE DEF q
  <2>5. CASE q.flushing
    BY <1>3, <2>1, <2>3, <2>4, <2>5 DEF Later, Sound, HasLoop
  <2>6. CASE ~q.flushing
    BY <1>3, <2>1, <2>3, <2>4, <2>6, FlushTurnSound DEF Later
  <2> QED
    BY <2>5, <2>6
<1> QED
  BY <1>1, <1>2, <1>3

\* Comments and events are frames.
LEMMA Frames ==
    /\ Comment \in Frame
    /\ \A id \in Nat, size \in EventSizes : EventFrame(id, size) \in Frame
BY BrokerAssumption DEF Comment, EventFrame, Frame

\* An event is numbered and queued.
LEMMA RouteSound ==
    ASSUME NEW r, Sound(r), NEW size \in EventSizes
    PROVE  Later(r, Route(r, size))
<1> DEFINE q == [r EXCEPT !.nextId = @ + 1]
<1>1. r.nextId \in Nat
  BY DEF Sound, Shape
<1>2. EventFrame(r.nextId, size) \in Frame
  BY <1>1, Frames
<1>3. q \in Shape
  <2>1. r \in Shape /\ r.nextId + 1 \in Nat \ {0}
    BY DEF Sound, Shape
  <2> QED
    BY <2>1, Zenon DEF Shape
<1>4. /\ q.queue = r.queue /\ q.flushing = r.flushing /\ q.awaiting = r.awaiting
      /\ q.closed = r.closed /\ q.decrements = r.decrements /\ q.increments = r.increments
  BY DEF Sound, Shape
<1>5. Route(r, size) = Enqueue(q, EventFrame(r.nextId, size))
  BY DEF Route
<1> HIDE DEF q
<1>6. Sound(q)
  BY <1>3, <1>4 DEF Sound, HasLoop
<1>7. Later(q, Enqueue(q, EventFrame(r.nextId, size)))
  BY <1>2, <1>6, EnqueueSound
<1> QED
  BY <1>4, <1>5, <1>7 DEF Later

\* The end of a write: the loop of an open connection takes its next turn, that
\* of a closed one stops.
LEMMA WrittenSound ==
    ASSUME NEW r, Sound(r)
    PROVE  Later(r, Written(r))
<1>1. CASE r.closed
  <2> DEFINE s == [r EXCEPT !.flushing = FALSE, !.awaiting = "none"]
  <2>1. Written(r) = s
    BY <1>1 DEF Written
  <2>2. s \in Shape
    BY DEF Sound, Shape
  <2>3. /\ s.closed /\ s.queue = <<>> /\ s.decrements = 1
        /\ s.increments = r.increments
        /\ ~s.flushing /\ s.awaiting = "none"
    BY <1>1 DEF Sound, Shape
  <2> HIDE DEF s
  <2> QED
    BY <2>1, <2>2, <2>3 DEF Later, Sound, HasLoop
<1>2. CASE ~r.closed
  BY <1>2, FlushTurnSound DEF Written, Sound
<1> QED
  BY <1>1, <1>2

-----------------------------------------------------------------------------
(* What the actions do to the connections and the index.                   *)

\* A connection that has not registered is open, idle and holds no demand.
LEMMA NewIsIdle ==
    /\ ~NewConnection.closed /\ ~NewConnection.timer /\ ~NewConnection.flushing
    /\ NewConnection.queue = <<>> /\ NewConnection.awaiting = "none"
    /\ NewConnection.increments = 0 /\ NewConnection.decrements = 0
    /\ NewConnection \in Shape
    /\ Sound(NewConnection)
<1>1. /\ ~NewConnection.closed /\ ~NewConnection.timer /\ ~NewConnection.flushing
      /\ NewConnection.queue = <<>> /\ NewConnection.awaiting = "none"
      /\ NewConnection.increments = 0 /\ NewConnection.decrements = 0
  BY DEF NewConnection
<1>2. NewConnection \in Shape
  BY DEF NewConnection, Shape
<1> QED
  BY <1>1, <1>2 DEF Sound, HasLoop

\* Only registered connections are indexed, none has work before.
LEMMA BusyIsRegistered ==
    ASSUME IInv, NEW c \in Conns,
           \/ phase[c] # "new"
           \/ conn[c].timer
           \/ conn[c].awaiting # "none"
           \/ c \in ById
           \/ \E k \in Keys : c \in index[k]
    PROVE  phase[c] # "new"
BY NewIsIdle DEF IInv, IndexIsExact, ById

\* A step that moves registered connections on, without registering any, and
\* takes those it closes out of the index.
LEMMA BecomeSound ==
    ASSUME IInv, NEW new, DOMAIN new = Conns, new \in [Conns -> Shape], Become(new),
           \A c \in Conns : Later(conn[c], new[c]),
           \A c \in Conns : phase[c] = "new" => new[c] = conn[c],
           phase' \in [Conns -> {"new", "registering", "registered", "rejected"}],
           \A c \in Conns : phase'[c] = "new" <=> phase[c] = "new"
    PROVE  IInv'
<1>1. conn' = new
  BY DEF Become
<1>2. \A k \in Keys : index'[k] = {c \in index[k] : ~new[c].closed}
  BY DEF Become
<1>3. index' \in [Keys -> SUBSET Conns]
  BY DEF Become, IInv
<1>4. ASSUME NEW c \in Conns
      PROVE  /\ Sound(new[c])
             /\ phase'[c] = "new" => new[c] = NewConnection
             /\ phase'[c] # "new" => new[c].increments = 1
  BY DEF IInv, Later
<1>5. ASSUME NEW k \in Keys
      PROVE  index'[k] = {c \in ById' : k \in Routes[c]}
  <2>1. index[k] = {c \in ById : k \in Routes[c]}
    BY DEF IInv, IndexIsExact
  <2>2. \A c \in Conns : ~new[c].closed => ~conn[c].closed
    BY DEF Later
  <2>3. ById' = {c \in ById : ~new[c].closed}
    BY <1>1, <2>2 DEF ById
  <2> QED
    BY <1>2, <2>1, <2>3
<1> QED
  BY <1>1, <1>3, <1>4, <1>5 DEF IInv, IndexIsExact

\* The same for a step that moves one registered connection on.
LEMMA BecomeOneSound ==
    ASSUME IInv, NEW c \in Conns, phase[c] # "new", NEW s, Later(conn[c], s),
           Become([conn EXCEPT ![c] = s]),
           NEW p \in {"registering", "registered", "rejected"},
           phase' = phase \/ phase' = [phase EXCEPT ![c] = p]
    PROVE  IInv'
<1> DEFINE new == [conn EXCEPT ![c] = s]
<1>1. conn \in [Conns -> Shape] /\ s \in Shape
  BY DEF IInv, Later, Sound
<1>2. new \in [Conns -> Shape] /\ DOMAIN new = Conns
  BY <1>1
<1>3. \A d \in Conns : Later(conn[d], new[d])
  BY <1>1 DEF IInv, Later
<1>4. \A d \in Conns : phase[d] = "new" => new[d] = conn[d]
  BY <1>1
<1>5. /\ phase' \in [Conns -> {"new", "registering", "registered", "rejected"}]
      /\ \A d \in Conns : phase'[d] = "new" <=> phase[d] = "new"
  BY DEF IInv
<1> HIDE DEF new
<1> QED
  BY <1>2, <1>3, <1>4, <1>5, BecomeSound DEF new

-----------------------------------------------------------------------------
(* The theorems.                                                           *)

\* The invariant holds of a broker without connections.
LEMMA InitSound == Init => IInv
<1> SUFFICES ASSUME Init PROVE IInv
  OBVIOUS
<1>1. ById = {}
  BY DEF Init, ById
<1> QED
  BY <1>1, NewIsIdle DEF Init, IInv, IndexIsExact

\* Every step of the broker preserves the invariant.
LEMMA NextSound == IInv /\ [Next]_vars => IInv'
<1> SUFFICES ASSUME IInv, [Next]_vars PROVE IInv'
  OBVIOUS
<1>1. ASSUME NEW c \in Conns, Register(c) PROVE IInv'
  <2> DEFINE s == [conn[c] EXCEPT !.increments = @ + 1]
  <2>1. phase[c] = "new" /\ conn[c] = NewConnection
    BY <1>1 DEF Register, IInv
  <2>2. conn' = [conn EXCEPT ![c] = s]
    BY <1>1 DEF Register
  <2>3. s \in Shape
    <3>1. conn[c] \in Shape /\ conn[c].increments + 1 \in Nat
      BY <2>1, NewIsIdle
    <3> QED
      BY <3>1, Zenon DEF Shape
  <2>4. /\ ~s.closed /\ s.decrements = 0 /\ s.increments = 1
        /\ s.queue = <<>> /\ ~s.flushing /\ s.awaiting = "none"
    BY <2>1, NewIsIdle DEF Shape
  <2> HIDE DEF s
  <2>5. Sound(s)
    BY <2>3, <2>4 DEF Sound, HasLoop
  <2>6. /\ phase' \in [Conns -> {"new", "registering", "registered", "rejected"}]
        /\ phase'[c] = "registering"
        /\ \A d \in Conns \ {c} : phase'[d] = phase[d]
    BY <1>1 DEF Register, IInv
  <2>7. /\ conn' \in [Conns -> Shape]
        /\ conn'[c] = s
        /\ \A d \in Conns \ {c} : conn'[d] = conn[d]
    BY <2>2, <2>3 DEF IInv
  <2>8. \A d \in Conns :
          /\ Sound(conn'[d])
          /\ phase'[d] = "new" => conn'[d] = NewConnection
          /\ phase'[d] # "new" => conn'[d].increments = 1
    BY <2>4, <2>5, <2>6, <2>7 DEF IInv
  <2>9. ById' = ById \cup {c}
    BY <2>4, <2>6, <2>7 DEF ById
  <2>10. ASSUME NEW k \in Keys
         PROVE  /\ index'[k] \in SUBSET Conns
                /\ index'[k] = {d \in ById' : k \in Routes[d]}
    <3>1. index[k] = {d \in ById : k \in Routes[d]}
      BY DEF IInv, IndexIsExact
    <3>2. index'[k] = IF k \in Routes[c] THEN index[k] \cup {c} ELSE index[k]
      BY <1>1 DEF Register
    <3> QED
      BY <2>9, <3>1, <3>2 DEF ById
  <2>11. index' \in [Keys -> SUBSET Conns]
    BY <1>1, <2>10 DEF Register
  <2> QED
    BY <2>6, <2>7, <2>8, <2>10, <2>11 DEF IInv, IndexIsExact
<1>2. ASSUME NEW c \in Conns, Registered(c) PROVE IInv'
  <2> DEFINE first == Enqueue(conn[c], Comment)
             greeted == Enqueue(first, Comment)
             s == [greeted EXCEPT !.timer = TRUE]
  <2>1. Sound(conn[c]) /\ phase[c] # "new"
    BY <1>2 DEF Registered, IInv
  <2>2. Later(conn[c], first)
    BY <2>1, Frames, EnqueueSound
  <2>3. Later(first, greeted)
    BY <2>2, Frames, EnqueueSound DEF Later
  <2> HIDE DEF first, greeted
  <2>4. Later(conn[c], greeted)
    BY <2>2, <2>3 DEF Later
  <2>5. greeted \in Shape
    BY <2>4 DEF Later, Sound
  <2>6. s \in Shape
    BY <2>5, Zenon DEF Shape
  <2>7. /\ s.queue = greeted.queue /\ s.flushing = greeted.flushing
        /\ s.awaiting = greeted.awaiting /\ s.closed = greeted.closed
        /\ s.decrements = greeted.decrements /\ s.increments = greeted.increments
    BY <2>5 DEF Shape
  <2>8. Become([conn EXCEPT ![c] = s]) /\ phase' = [phase EXCEPT ![c] = "registered"]
    BY <1>2 DEF Registered, first, greeted
  <2> HIDE DEF s
  <2>9. Later(conn[c], s)
    BY <2>4, <2>6, <2>7 DEF Later, Sound, HasLoop
  <2> QED
    BY <2>1, <2>8, <2>9, BecomeOneSound
<1>3. ASSUME NEW c \in Conns, RegistrationFails(c) PROVE IInv'
  <2>1. Sound(conn[c]) /\ phase[c] # "new"
    BY <1>3 DEF RegistrationFails, IInv
  <2> QED
    BY <1>3, <2>1, CleanupSound, BecomeOneSound DEF RegistrationFails
<1>4. ASSUME NEW c \in Conns, Keepalive(c) PROVE IInv'
  <2>1. Sound(conn[c]) /\ phase[c] # "new"
    BY <1>4, BusyIsRegistered DEF Keepalive, IInv
  <2> QED
    BY <1>4, <2>1, Frames, EnqueueSound, BecomeOneSound DEF Keepalive
<1>5. ASSUME NEW c \in Conns, WriteDone(c) PROVE IInv'
  <2>1. Sound(conn[c]) /\ phase[c] # "new"
    BY <1>5, BusyIsRegistered DEF WriteDone, IInv
  <2> QED
    BY <1>5, <2>1, WrittenSound, BecomeOneSound DEF WriteDone
<1>6. ASSUME NEW c \in Conns, WriteFails(c) PROVE IInv'
  <2> DEFINE q == Cleanup(conn[c])
             s == [q EXCEPT !.flushing = FALSE, !.awaiting = "none"]
  <2>1. Sound(conn[c]) /\ phase[c] # "new"
    BY <1>6, BusyIsRegistered DEF WriteFails, IInv
  <2>2. Later(conn[c], q) /\ q.closed
    BY <2>1, CleanupSound
  <2>3. Become([conn EXCEPT ![c] = s]) /\ phase' = phase
    BY <1>6 DEF WriteFails
  <2> HIDE DEF q
  <2>4. q \in Shape
    BY <2>2 DEF Later, Sound
  <2>5. s \in Shape
    BY <2>4, Zenon DEF Shape
  <2>6. /\ s.closed /\ s.queue = <<>> /\ s.decrements = 1
        /\ s.increments = q.increments /\ ~s.flushing /\ s.awaiting = "none"
    BY <2>2, <2>4 DEF Later, Sound, Shape
  <2> HIDE DEF s
  <2>7. Later(conn[c], s)
    BY <2>2, <2>5, <2>6 DEF Later, Sound, HasLoop
  <2> QED
    BY <2>1, <2>3, <2>7, BecomeOneSound
<1>7. ASSUME NEW c \in Conns, ResponseClose(c) PROVE IInv'
  <2> DEFINE left == [conn[c] EXCEPT !.gone = TRUE]
             s == IF phase[c] = "registered" THEN Cleanup(left) ELSE left
  <2>1. Sound(conn[c]) /\ conn[c] \in Shape /\ phase[c] # "new"
    BY <1>7 DEF ResponseClose, IInv
  <2>2. left \in Shape
    BY <2>1, Zenon DEF Shape
  <2>3. /\ left.queue = conn[c].queue /\ left.flushing = conn[c].flushing
        /\ left.awaiting = conn[c].awaiting /\ left.closed = conn[c].closed
        /\ left.decrements = conn[c].decrements /\ left.increments = conn[c].increments
    BY <2>1 DEF Shape
  <2>4. Become([conn EXCEPT ![c] = s]) /\ phase' = phase
    BY <1>7 DEF ResponseClose
  <2> HIDE DEF left
  <2>5. Later(conn[c], left)
    BY <2>1, <2>2, <2>3 DEF Later, Sound, HasLoop
  <2>6. Later(left, Cleanup(left))
    BY <2>5, CleanupSound DEF Later
  <2>7. Later(conn[c], s)
    BY <2>5, <2>6 DEF Later
  <2> HIDE DEF s
  <2> QED
    BY <2>1, <2>4, <2>7, BecomeOneSound
<1>8. ASSUME NEW c \in Conns, LeaseLost(c) PROVE IInv'
  <2> DEFINE s == [conn[c] EXCEPT !.ended = TRUE]
  <2>1. Sound(conn[c]) /\ conn[c] \in Shape /\ phase[c] # "new"
    BY <1>8 DEF LeaseLost, IInv
  <2>2. s \in Shape
    BY <2>1, Zenon DEF Shape
  <2>3. /\ s.queue = conn[c].queue /\ s.flushing = conn[c].flushing
        /\ s.awaiting = conn[c].awaiting /\ s.closed = conn[c].closed
        /\ s.decrements = conn[c].decrements /\ s.increments = conn[c].increments
    BY <2>1 DEF Shape
  <2>4. conn' = [conn EXCEPT ![c] = s] /\ phase' = phase /\ index' = index
    BY <1>8 DEF LeaseLost
  <2> HIDE DEF s
  <2>5. Sound(s)
    BY <2>1, <2>2, <2>3 DEF Sound, HasLoop
  <2>6. /\ conn' \in [Conns -> Shape]
        /\ conn'[c] = s
        /\ \A d \in Conns \ {c} : conn'[d] = conn[d]
    BY <2>2, <2>4 DEF IInv
  <2>7. \A d \in Conns :
          /\ Sound(conn'[d])
          /\ phase[d] = "new" => conn'[d] = NewConnection
          /\ phase[d] # "new" => conn'[d].increments = 1
          /\ conn'[d].closed = conn[d].closed
    BY <2>1, <2>3, <2>5, <2>6 DEF IInv
  <2>8. ById' = ById
    BY <2>4, <2>7 DEF ById
  <2> QED
    BY <2>4, <2>6, <2>7, <2>8 DEF IInv, IndexIsExact
<1>9. ASSUME NEW k \in Keys, NEW size \in EventSizes, NEW matching \in SUBSET index[k],
             RouteEvent(k, matching, size)
      PROVE  IInv'
  <2> DEFINE new == [c \in Conns |-> IF c \in matching THEN Route(conn[c], size) ELSE conn[c]]
  <2>1. ASSUME NEW c \in Conns
        PROVE  Later(conn[c], new[c]) /\ new[c] \in Shape
    <3>1. Sound(conn[c])
      BY DEF IInv
    <3>2. Later(conn[c], Route(conn[c], size)) /\ Later(conn[c], conn[c])
      BY <3>1, RouteSound DEF Later
    <3> QED
      BY <3>2 DEF Later, Sound
  <2>2. \A c \in Conns : phase[c] = "new" => c \notin matching
    BY BusyIsRegistered
  <2>3. \A c \in Conns : phase[c] = "new" => new[c] = conn[c]
    BY <2>2
  <2>4. DOMAIN new = Conns /\ new \in [Conns -> Shape]
    BY <2>1
  <2>5. Become(new) /\ phase' = phase
    BY <1>9 DEF RouteEvent
  <2> HIDE DEF new
  <2> QED
    BY <2>1, <2>3, <2>4, <2>5, BecomeSound DEF IInv
<1>10. ASSUME CloseAll PROVE IInv'
  <2> DEFINE new == [c \in Conns |-> IF c \in ById THEN Cleanup(conn[c]) ELSE conn[c]]
  <2>1. ASSUME NEW c \in Conns
        PROVE  Later(conn[c], new[c]) /\ new[c] \in Shape
    <3>1. Sound(conn[c])
      BY DEF IInv
    <3>2. Later(conn[c], Cleanup(conn[c])) /\ Later(conn[c], conn[c])
      BY <3>1, CleanupSound DEF Later
    <3> QED
      BY <3>2 DEF Later, Sound
  <2>2. \A c \in Conns : phase[c] = "new" => new[c] = conn[c]
    BY DEF ById
  <2>3. DOMAIN new = Conns /\ new \in [Conns -> Shape]
    BY <2>1
  <2>4. Become(new) /\ phase' = phase
    BY <1>10 DEF CloseAll
  <2> HIDE DEF new
  <2> QED
    BY <2>1, <2>2, <2>3, <2>4, BecomeSound DEF IInv
<1>11. CASE UNCHANGED vars
  BY <1>11 DEF vars, IInv, IndexIsExact, ById
<1> QED
  BY <1>1, <1>2, <1>3, <1>4, <1>5, <1>6, <1>7, <1>8, <1>9, <1>10, <1>11
     DEF Next, WriteSettles

\* The inductive invariant: records, registration and index agree.
THEOREM BrokerInvariant == Spec => []IInv
BY InitSound, NextSound, PTL DEF Spec

\* Events find every open connection that asked for them and no closed one, in
\* every order of registrations, events, failures, closes and shutdown.
THEOREM IndexIsExactAlways == Spec => []IndexIsExact
<1>1. IInv => IndexIsExact
  BY DEF IInv
<1> QED
  BY <1>1, BrokerInvariant, PTL

\* However many of errors, backpressure, close events and shutdown clean a
\* connection up, its demand is taken once and given up once.
THEOREM DemandReleasedOnceAlways == Spec => []DemandReleasedOnce
<1>1. IInv => DemandReleasedOnce
  BY NewIsIdle DEF IInv, Sound, DemandReleasedOnce
<1> QED
  BY <1>1, BrokerInvariant, PTL

\* No frame waits in the queue of a connection whose flush loop has stopped: the
\* first half of QueueIsServed.
THEOREM QueueHasLoopAlways == Spec => [](\A c \in Conns : HasLoop(conn[c]))
<1>1. IInv => \A c \in Conns : HasLoop(conn[c])
  BY DEF IInv, Sound
<1> QED
  BY <1>1, BrokerInvariant, PTL

-----------------------------------------------------------------------------
(* The order of the events.                                                *)

\* What is written in order stays so when the response ends or the connection
\* closes, and what is queued too when nothing else changes.
LEMMA OrderKept ==
    ASSUME NEW r, NEW s, InOrder(r), s.wire = r.wire,
           \/ s.closed \/ s.ended
           \/ /\ s.queue = r.queue /\ s.nextId = r.nextId
              /\ s.closed = r.closed /\ s.ended = r.ended
    PROVE  InOrder(s)
BY DEF InOrder

LEMMA CleanupInOrder ==
    ASSUME NEW r \in Shape, InOrder(r)
    PROVE  InOrder(Cleanup(r))
<1>1. CASE r.closed
  BY <1>1 DEF Cleanup
<1>2. CASE ~r.closed
  <2>1. Cleanup(r).wire = r.wire /\ Cleanup(r).closed
    BY <1>2 DEF Cleanup, Shape
  <2> QED
    BY <2>1, OrderKept
<1> QED
  BY <1>1, <1>2

\* The event at the head of the queue is the next to be written.
LEMMA HeadIsNext ==
    ASSUME NEW r \in Shape, InOrder(r), ~r.closed, ~r.ended, r.queue # <<>>
    PROVE  /\ Head(r.queue).event =>
                 Head(r.queue).id = Len(r.wire) + 1 /\ Len(r.wire) + 1 < r.nextId
           /\ Head(r.queue).event =>
                 {Tail(r.queue)[i].id : i \in EventPlaces(Tail(r.queue))}
                    = (Len(r.wire) + 2)..(r.nextId - 1)
           /\ ~Head(r.queue).event =>
                 {Tail(r.queue)[i].id : i \in EventPlaces(Tail(r.queue))}
                    = (Len(r.wire) + 1)..(r.nextId - 1)
           /\ \A i, j \in EventPlaces(Tail(r.queue)) :
                 i < j => Tail(r.queue)[i].id < Tail(r.queue)[j].id
<1> DEFINE q == r.queue
           t == Tail(r.queue)
           n == Len(r.wire)
<1>1. /\ q \in Seq(Frame) /\ Len(q) \in Nat \ {0} /\ Head(q) = q[1]
      /\ t \in Seq(Frame) /\ Len(t) = Len(q) - 1 /\ \A i \in 1..Len(t) : t[i] = q[i + 1]
      /\ DOMAIN q = 1..Len(q) /\ DOMAIN t = 1..Len(t)
      /\ n \in Nat /\ r.nextId \in Nat
  <2>1. q \in Seq(Frame) /\ q # <<>> /\ r.wire \in Seq(Nat) /\ r.nextId \in Nat
    BY DEF Shape
  <2>2. n \in Nat
    BY <2>1
  <2>3. /\ Len(q) \in Nat \ {0} /\ Head(q) = q[1] /\ DOMAIN q = 1..Len(q)
        /\ t \in Seq(Frame) /\ Len(t) = Len(q) - 1 /\ DOMAIN t = 1..Len(t)
    BY <2>1
  <2>4. \A i \in 1..Len(t) : t[i] = q[i + 1]
    BY <2>1, <2>3
  <2> QED
    BY <2>1, <2>2, <2>3, <2>4
<1>2. \A i \in 1..Len(q) : q[i].id \in Nat
  <2> SUFFICES ASSUME NEW i \in 1..Len(q) PROVE q[i].id \in Nat
    OBVIOUS
  <2>1. q[i] \in Frame
    BY <1>1
  <2> QED
    BY <2>1 DEF Frame
<1>3. /\ {q[i].id : i \in EventPlaces(q)} = (n + 1)..(r.nextId - 1)
      /\ \A i, j \in EventPlaces(q) : i < j => q[i].id < q[j].id
  BY DEF InOrder
<1>4. \A i \in EventPlaces(t) :
         i \in 1..Len(t) /\ i + 1 \in EventPlaces(q) /\ t[i] = q[i + 1]
  <2> SUFFICES ASSUME NEW i \in EventPlaces(t)
               PROVE  i \in 1..Len(t) /\ i + 1 \in EventPlaces(q) /\ t[i] = q[i + 1]
    OBVIOUS
  <2>1. i \in 1..Len(t) /\ t[i].event
    BY <1>1 DEF EventPlaces
  <2>2. i + 1 \in 1..Len(q) /\ t[i] = q[i + 1]
    BY <1>1, <2>1
  <2> QED
    BY <1>1, <2>1, <2>2 DEF EventPlaces
<1>5. \A j \in EventPlaces(q) : j # 1 => j - 1 \in EventPlaces(t) /\ t[j - 1] = q[j]
  <2> SUFFICES ASSUME NEW j \in EventPlaces(q), j # 1
               PROVE  j - 1 \in EventPlaces(t) /\ t[j - 1] = q[j]
    OBVIOUS
  <2>1. j \in 1..Len(q) /\ q[j].event
    BY <1>1 DEF EventPlaces
  <2>2. j - 1 \in 1..Len(t) /\ j - 1 + 1 = j
    BY <1>1, <2>1
  <2>3. t[j - 1] = q[j]
    BY <1>1, <2>2
  <2> QED
    BY <1>1, <2>1, <2>2, <2>3 DEF EventPlaces
<1>6. \A i, j \in EventPlaces(t) : i < j => t[i].id < t[j].id
  <2> SUFFICES ASSUME NEW i \in EventPlaces(t), NEW j \in EventPlaces(t), i < j
               PROVE  t[i].id < t[j].id
    OBVIOUS
  <2>1. i + 1 < j + 1
    BY <1>4
  <2> QED
    BY <1>3, <1>4, <2>1
<1>7. q[1].event => 1 \in EventPlaces(q)
  BY <1>1 DEF EventPlaces
<1>8. ASSUME q[1].event PROVE q[1].id = n + 1 /\ n + 1 < r.nextId
  <2>1. q[1].id \in (n + 1)..(r.nextId - 1)
    BY <1>3, <1>7, <1>8
  <2>2. n + 1 \in (n + 1)..(r.nextId - 1)
    BY <1>1, <2>1
  <2>3. PICK j \in EventPlaces(q) : q[j].id = n + 1
    BY <1>3, <2>2
  <2>4. j \in Nat /\ (j = 1 \/ 1 < j)
    BY <1>1 DEF EventPlaces
  <2>5. j = 1 \/ q[1].id < n + 1
    BY <1>3, <1>7, <1>8, <2>3, <2>4
  <2> QED
    BY <1>1, <2>1, <2>3, <2>5
<1>9. ASSUME ~q[1].event
      PROVE  {t[i].id : i \in EventPlaces(t)} = (n + 1)..(r.nextId - 1)
  <2>1. 1 \notin EventPlaces(q)
    BY <1>9 DEF EventPlaces
  <2>2. {t[i].id : i \in EventPlaces(t)} = {q[i].id : i \in EventPlaces(q)}
    <3>1. ASSUME NEW i \in EventPlaces(t) PROVE \E j \in EventPlaces(q) : t[i].id = q[j].id
      BY <1>4
    <3>2. ASSUME NEW j \in EventPlaces(q) PROVE \E i \in EventPlaces(t) : q[j].id = t[i].id
      BY <1>5, <2>1
    <3> QED
      BY <3>1, <3>2
  <2> QED
    BY <1>3, <2>2
<1>10. ASSUME q[1].event
       PROVE  {t[i].id : i \in EventPlaces(t)} = (n + 2)..(r.nextId - 1)
  <2>1. ASSUME NEW i \in EventPlaces(t) PROVE t[i].id \in (n + 2)..(r.nextId - 1)
    <3>1. i + 1 \in EventPlaces(q) /\ t[i] = q[i + 1] /\ 1 < i + 1
      BY <1>4
    <3>2. q[1].id < q[i + 1].id /\ q[i + 1].id \in (n + 1)..(r.nextId - 1)
      BY <1>3, <1>7, <1>10, <3>1
    <3>3. n + 1 < q[i + 1].id
      BY <1>8, <1>10, <3>2
    <3> HIDE DEF q, t, n
    <3> QED
      BY <1>1, <3>1, <3>2, <3>3
  <2>2. ASSUME NEW id \in (n + 2)..(r.nextId - 1) PROVE \E i \in EventPlaces(t) : id = t[i].id
    <3>1. id \in (n + 1)..(r.nextId - 1) /\ id # n + 1
      BY <1>1
    <3>2. PICK j \in EventPlaces(q) : q[j].id = id
      BY <1>3, <3>1
    <3>3. j # 1
      BY <1>8, <1>10, <3>1, <3>2
    <3> QED
      BY <1>5, <3>2, <3>3
  <2> QED
    BY <2>1, <2>2
<1> HIDE DEF q, t, n
<1>11. q = r.queue /\ t = Tail(r.queue) /\ n = Len(r.wire)
  BY DEF q, t, n
<1>12. /\ q[1].event => q[1].id = n + 1 /\ n + 1 < r.nextId
       /\ q[1].event => {t[i].id : i \in EventPlaces(t)} = (n + 2)..(r.nextId - 1)
       /\ ~q[1].event => {t[i].id : i \in EventPlaces(t)} = (n + 1)..(r.nextId - 1)
  BY <1>8, <1>9, <1>10
<1>13. Head(q) = q[1]
  BY <1>1
<1> QED
  BY <1>6, <1>11, <1>12, <1>13, Zenon

\* A turn of the flush loop writes the next event, or none.
LEMMA FlushTurnInOrder ==
    ASSUME NEW r \in Shape, InOrder(r), ~r.closed
    PROVE  InOrder(FlushTurn(r))
<1>1. CASE r.queue = <<>>
  <2> DEFINE s == [r EXCEPT !.flushing = FALSE, !.awaiting = "none"]
  <2>1. FlushTurn(r) = s
    BY <1>1 DEF FlushTurn
  <2>2. s.wire = r.wire /\ s.queue = r.queue /\ s.nextId = r.nextId
        /\ s.closed = r.closed /\ s.ended = r.ended
    BY DEF Shape
  <2> HIDE DEF s
  <2> QED
    BY <2>1, <2>2, OrderKept
<1>2. CASE r.queue # <<>>
  <2> DEFINE s == FlushTurn(r)
             frame == Head(r.queue)
  <2>1. /\ s.queue = Tail(r.queue) /\ s.nextId = r.nextId
        /\ s.closed = r.closed /\ s.ended = r.ended
        /\ s.wire = IF frame.event /\ ~r.ended THEN Append(r.wire, frame.id) ELSE r.wire
    BY <1>2 DEF FlushTurn, Shape
  <2>2. frame \in Frame /\ r.wire \in Seq(Nat)
    BY <1>2 DEF Shape
  <2> HIDE DEF s
  <2>3. CASE r.ended
    BY <2>1, <2>3, OrderKept DEF s
  <2>4. CASE ~r.ended /\ ~frame.event
    BY <1>2, <2>1, <2>4, HeadIsNext DEF InOrder, s
  <2>5. CASE ~r.ended /\ frame.event
    <3>1. frame.id = Len(r.wire) + 1 /\ frame.id \in Nat
      BY <1>2, <2>2, <2>5, HeadIsNext DEF Frame
    <3>2. /\ s.wire = Append(r.wire, frame.id) /\ Len(s.wire) = Len(r.wire) + 1
          /\ DOMAIN s.wire = 1..(Len(r.wire) + 1) /\ DOMAIN r.wire = 1..Len(r.wire)
          /\ Len(r.wire) \in Nat
          /\ \A i \in 1..Len(r.wire) : s.wire[i] = r.wire[i]
          /\ s.wire[Len(r.wire) + 1] = frame.id
      BY <2>1, <2>2, <2>5, <3>1
    <3>3. \A i \in DOMAIN s.wire : s.wire[i] = i
      <4> SUFFICES ASSUME NEW i \in 1..(Len(r.wire) + 1) PROVE s.wire[i] = i
        BY <3>2
      <4>1. i \in 1..Len(r.wire) \/ i = Len(r.wire) + 1
        BY <3>2
      <4> QED
        BY <3>1, <3>2, <4>1 DEF InOrder
    <3>4. /\ Len(s.wire) < s.nextId
          /\ {s.queue[i].id : i \in EventPlaces(s.queue)} = (Len(s.wire) + 1)..(s.nextId - 1)
      <4>1. /\ Len(r.wire) + 1 < r.nextId
            /\ {Tail(r.queue)[i].id : i \in EventPlaces(Tail(r.queue))}
                 = (Len(r.wire) + 2)..(r.nextId - 1)
        BY <1>2, <2>5, HeadIsNext
      <4>2. Len(s.wire) + 1 = Len(r.wire) + 2 /\ Len(s.wire) = Len(r.wire) + 1
        BY <3>2
      <4>3. (Len(s.wire) + 1)..(s.nextId - 1) = (Len(r.wire) + 2)..(r.nextId - 1)
        BY <2>1, <4>2
      <4>4. {s.queue[i].id : i \in EventPlaces(s.queue)}
              = {Tail(r.queue)[i].id : i \in EventPlaces(Tail(r.queue))}
        BY <2>1
      <4> QED
        BY <2>1, <4>1, <4>2, <4>3, <4>4
    <3>5. \A i, j \in EventPlaces(s.queue) : i < j => s.queue[i].id < s.queue[j].id
      BY <1>2, <2>1, <2>5, HeadIsNext
    <3> QED
      BY <3>3, <3>4, <3>5 DEF InOrder, s
  <2> QED
    BY <2>3, <2>4, <2>5
<1> QED
  BY <1>1, <1>2

\* A connection whose queue has one frame more.
Longer(r, frame) == [r EXCEPT !.queue = Append(@, frame), !.bytes = @ + frame.size]

LEMMA LongerShape ==
    ASSUME NEW r \in Shape, NEW frame \in Frame
    PROVE  /\ Longer(r, frame) \in Shape
           /\ Longer(r, frame).queue = Append(r.queue, frame)
           /\ Longer(r, frame).wire = r.wire /\ Longer(r, frame).nextId = r.nextId
           /\ Longer(r, frame).closed = r.closed /\ Longer(r, frame).ended = r.ended
<1>1. Append(r.queue, frame) \in Seq(Frame) /\ r.bytes + frame.size \in Int
  BY DEF Shape, Frame
<1>2. Longer(r, frame) \in Shape
  BY <1>1, Zenon DEF Shape, Longer
<1>3. /\ Longer(r, frame).queue = Append(r.queue, frame)
      /\ Longer(r, frame).wire = r.wire /\ Longer(r, frame).nextId = r.nextId
      /\ Longer(r, frame).closed = r.closed /\ Longer(r, frame).ended = r.ended
  BY DEF Shape, Longer
<1> QED
  BY <1>2, <1>3

LEMMA EnqueueInOrder ==
    ASSUME NEW r \in Shape, NEW frame \in Frame, InOrder(Longer(r, frame))
    PROVE  InOrder(Enqueue(r, frame))
<1>1. \A i \in DOMAIN r.wire : r.wire[i] = i
  BY LongerShape DEF InOrder
<1>2. CASE r.closed
  BY <1>1, <1>2 DEF Enqueue, InOrder
<1>3. CASE ~r.closed /\ Overflows(r, frame)
  <2>1. Cleanup(r).wire = r.wire /\ Cleanup(r).closed
    BY <1>3 DEF Cleanup, Shape
  <2> QED
    BY <1>1, <1>3, <2>1 DEF Enqueue, InOrder
<1>4. CASE ~r.closed /\ ~Overflows(r, frame)
  <2>1. Enqueue(r, frame) =
          IF Longer(r, frame).flushing THEN Longer(r, frame) ELSE FlushTurn(Longer(r, frame))
    BY <1>4 DEF Enqueue, Longer
  <2>2. InOrder(FlushTurn(Longer(r, frame)))
    BY <1>4, LongerShape, FlushTurnInOrder
  <2> QED
    BY <2>1, <2>2
<1> QED
  BY <1>2, <1>3, <1>4

\* A comment is no event.
LEMMA CommentInOrder ==
    ASSUME NEW r \in Shape, InOrder(r)
    PROVE  InOrder(Enqueue(r, Comment))
<1>1. Comment \in Frame /\ ~Comment.event
  BY Frames DEF Comment
<1> DEFINE q == r.queue
           a == Append(r.queue, Comment)
<1>2. /\ q \in Seq(Frame) /\ Len(a) = Len(q) + 1 /\ DOMAIN q = 1..Len(q) /\ DOMAIN a = 1..(Len(q) + 1)
      /\ Len(q) \in Nat
      /\ \A i \in 1..Len(q) : a[i] = q[i]
      /\ a[Len(q) + 1] = Comment
  BY <1>1 DEF Shape
<1>3. EventPlaces(a) = EventPlaces(q)
  BY <1>1, <1>2 DEF EventPlaces
<1>4. \A i \in EventPlaces(q) : a[i] = q[i]
  BY <1>2 DEF EventPlaces
<1>5. {a[i].id : i \in EventPlaces(a)} = {q[i].id : i \in EventPlaces(q)}
  BY <1>3, <1>4
<1> HIDE DEF q, a
<1>6. InOrder(Longer(r, Comment))
  <2>1. /\ Longer(r, Comment).queue = a /\ r.queue = q
        /\ Longer(r, Comment).wire = r.wire /\ Longer(r, Comment).nextId = r.nextId
        /\ Longer(r, Comment).closed = r.closed /\ Longer(r, Comment).ended = r.ended
    BY <1>1, LongerShape DEF a, q
  <2>2. \A i \in DOMAIN r.wire : r.wire[i] = i
    BY DEF InOrder
  <2>3. ASSUME ~r.closed, ~r.ended
        PROVE  /\ Len(r.wire) < r.nextId
               /\ {a[i].id : i \in EventPlaces(a)} = (Len(r.wire) + 1)..(r.nextId - 1)
               /\ \A i, j \in EventPlaces(a) : i < j => a[i].id < a[j].id
    <3>1. /\ Len(r.wire) < r.nextId
          /\ {q[i].id : i \in EventPlaces(q)} = (Len(r.wire) + 1)..(r.nextId - 1)
          /\ \A i, j \in EventPlaces(q) : i < j => q[i].id < q[j].id
      BY <2>1, <2>3 DEF InOrder
    <3>2. \A i, j \in EventPlaces(a) : i < j => a[i].id < a[j].id
      BY <1>3, <1>4, <3>1
    <3> QED
      BY <1>5, <3>1, <3>2
  <2> QED
    BY <2>1, <2>2, <2>3 DEF InOrder
<1> QED
  BY <1>1, <1>6, EnqueueInOrder

\* An event takes the number that follows the last one.
LEMMA RouteInOrder ==
    ASSUME NEW r \in Shape, InOrder(r), NEW size \in EventSizes
    PROVE  InOrder(Route(r, size))
<1> DEFINE q == r.queue
           frame == EventFrame(r.nextId, size)
           a == Append(r.queue, frame)
           s == [r EXCEPT !.nextId = @ + 1]
<1>1. /\ frame \in Frame /\ frame.event /\ frame.id = r.nextId
      /\ r.nextId \in Nat \ {0} /\ Len(r.wire) \in Nat
  <2>1. r.nextId \in Nat \ {0} /\ Len(r.wire) \in Nat
    BY DEF Shape
  <2> QED
    BY <2>1, Frames DEF EventFrame
<1> HIDE DEF frame
<1>2. s \in Shape
  <2>1. r.nextId + 1 \in Nat \ {0}
    BY <1>1
  <2> QED
    BY <2>1, Zenon DEF Shape
<1>3. /\ s.queue = q /\ s.wire = r.wire /\ s.nextId = r.nextId + 1
      /\ s.closed = r.closed /\ s.ended = r.ended
  BY DEF Shape
<1>4. Route(r, size) = Enqueue(s, frame)
  BY DEF Route, frame
<1> HIDE DEF s
<1>5. /\ q \in Seq(Frame) /\ Len(a) = Len(q) + 1 /\ DOMAIN q = 1..Len(q) /\ DOMAIN a = 1..(Len(q) + 1)
      /\ Len(q) \in Nat
      /\ \A i \in 1..Len(q) : a[i] = q[i]
      /\ a[Len(q) + 1] = frame
  BY <1>1 DEF Shape
<1>6. EventPlaces(a) = EventPlaces(q) \cup {Len(q) + 1}
  BY <1>1, <1>5 DEF EventPlaces
<1>7. \A i \in EventPlaces(q) : a[i] = q[i] /\ i < Len(q) + 1 /\ i \in 1..Len(q)
  BY <1>5 DEF EventPlaces
<1>8. {a[i].id : i \in EventPlaces(a)} = {q[i].id : i \in EventPlaces(q)} \cup {r.nextId}
  BY <1>1, <1>5, <1>6, <1>7
<1> HIDE DEF a, q
<1>9. Longer(s, frame).queue = a /\ r.queue = q
  BY <1>1, <1>2, <1>3, LongerShape DEF a, q
<1>10. ASSUME ~r.closed, ~r.ended
       PROVE  /\ {a[i].id : i \in EventPlaces(a)} = (Len(r.wire) + 1)..r.nextId
              /\ \A i, j \in EventPlaces(a) : i < j => a[i].id < a[j].id
  <2>1. /\ {q[i].id : i \in EventPlaces(q)} = (Len(r.wire) + 1)..(r.nextId - 1)
        /\ \A i, j \in EventPlaces(q) : i < j => q[i].id < q[j].id
    BY <1>9, <1>10 DEF InOrder
  <2>2. \A i \in EventPlaces(q) : q[i].id < r.nextId
    <3> SUFFICES ASSUME NEW i \in EventPlaces(q) PROVE q[i].id < r.nextId
      OBVIOUS
    <3>1. q[i].id \in (Len(r.wire) + 1)..(r.nextId - 1)
      BY <2>1
    <3> QED
      BY <1>1, <3>1
  <2>3. ASSUME NEW i \in EventPlaces(a), NEW j \in EventPlaces(a), i < j
        PROVE  a[i].id < a[j].id
    <3>1. i \in EventPlaces(q)
      <4>1. ASSUME i = Len(q) + 1 PROVE FALSE
        BY <1>5, <1>6, <1>7, <2>3, <4>1
      <4> QED
        BY <1>6, <4>1
    <3>2. CASE j \in EventPlaces(q)
      BY <1>7, <2>1, <2>3, <3>1, <3>2
    <3>3. CASE j = Len(q) + 1
      BY <1>1, <1>5, <1>7, <2>2, <3>1, <3>3
    <3> QED
      BY <1>6, <3>2, <3>3
  <2>4. ((Len(r.wire) + 1)..(r.nextId - 1)) \cup {r.nextId} = (Len(r.wire) + 1)..r.nextId
    <3>1. Len(r.wire) + 1 <= r.nextId
      BY <1>1, <1>10 DEF InOrder
    <3> QED
      BY <1>1, <3>1
  <2> QED
    BY <1>8, <2>1, <2>3, <2>4
<1>11. InOrder(Longer(s, frame))
  <2>1. s.nextId - 1 = r.nextId
    BY <1>1, <1>3
  <2> QED
    BY <1>1, <1>2, <1>3, <1>9, <1>10, <2>1, LongerShape DEF InOrder
<1> QED
  BY <1>1, <1>2, <1>4, <1>11, EnqueueInOrder

\* The end of a write, or of a wait for nothing.
LEMMA WrittenInOrder ==
    ASSUME NEW r \in Shape, InOrder(r)
    PROVE  InOrder(Written(r))
<1>1. CASE r.closed
  <2> DEFINE s == [r EXCEPT !.flushing = FALSE, !.awaiting = "none"]
  <2>1. Written(r) = s
    BY <1>1 DEF Written
  <2>2. s.wire = r.wire /\ s.closed = r.closed
    BY DEF Shape
  <2> HIDE DEF s
  <2> QED
    BY <1>1, <2>1, <2>2, OrderKept
<1>2. CASE ~r.closed
  BY <1>2, FlushTurnInOrder DEF Written
<1> QED
  BY <1>1, <1>2

\* A step that changes one connection.
LEMMA OneInOrder ==
    ASSUME IInv, EventsInOrder, NEW c \in Conns, NEW s, InOrder(s),
           conn' = [conn EXCEPT ![c] = s]
    PROVE  EventsInOrder'
<1>1. \A d \in Conns : conn'[d] = IF d = c THEN s ELSE conn[d]
  BY DEF IInv
<1> QED
  BY <1>1 DEF EventsInOrder

\* Nothing was written, queued or numbered before the first step.
LEMMA InitInOrder == Init => EventsInOrder
<1>1. InOrder(NewConnection)
  <2>1. /\ NewConnection.wire = <<>> /\ NewConnection.queue = <<>>
        /\ NewConnection.nextId = 1
    BY DEF NewConnection
  <2>2. EventPlaces(<<>>) = {}
    BY DEF EventPlaces
  <2>3. {<<>>[i].id : i \in {}} = {} /\ (Len(<<>>) + 1)..(1 - 1) = {} /\ Len(<<>>) < 1
    OBVIOUS
  <2>4. DOMAIN <<>> = {}
    OBVIOUS
  <2> QED
    BY <2>1, <2>2, <2>3, <2>4 DEF InOrder
<1> QED
  BY <1>1 DEF Init, EventsInOrder

\* Every step of the broker keeps the events of every connection in order.
LEMMA StepInOrder == IInv /\ EventsInOrder /\ [Next]_vars => EventsInOrder'
<1> SUFFICES ASSUME IInv, EventsInOrder, [Next]_vars PROVE EventsInOrder'
  OBVIOUS
<1>1. \A c \in Conns : Sound(conn[c]) /\ conn[c] \in Shape /\ InOrder(conn[c])
  BY DEF IInv, EventsInOrder
<1>2. ASSUME NEW c \in Conns, Register(c) PROVE EventsInOrder'
  <2> DEFINE s == [conn[c] EXCEPT !.increments = @ + 1]
  <2>1. conn' = [conn EXCEPT ![c] = s]
    BY <1>2 DEF Register
  <2>2. /\ s.wire = conn[c].wire /\ s.queue = conn[c].queue /\ s.nextId = conn[c].nextId
        /\ s.closed = conn[c].closed /\ s.ended = conn[c].ended
    BY <1>1 DEF Shape
  <2> HIDE DEF s
  <2> QED
    BY <1>1, <2>1, <2>2, OrderKept, OneInOrder
<1>3. ASSUME NEW c \in Conns, Registered(c) PROVE EventsInOrder'
  <2> DEFINE first == Enqueue(conn[c], Comment)
             greeted == Enqueue(first, Comment)
             s == [greeted EXCEPT !.timer = TRUE]
  <2>1. Sound(first) /\ InOrder(first)
    BY <1>1, Frames, EnqueueSound, CommentInOrder DEF Later
  <2> HIDE DEF first
  <2>2. Sound(greeted) /\ InOrder(greeted)
    BY <2>1, Frames, EnqueueSound, CommentInOrder DEF Later, Sound
  <2> HIDE DEF greeted
  <2>3. /\ s.wire = greeted.wire /\ s.queue = greeted.queue /\ s.nextId = greeted.nextId
        /\ s.closed = greeted.closed /\ s.ended = greeted.ended
    BY <2>2 DEF Sound, Shape
  <2>4. conn' = [conn EXCEPT ![c] = s]
    BY <1>3 DEF Registered, Become, greeted, first
  <2> HIDE DEF s
  <2> QED
    BY <2>2, <2>3, <2>4, OrderKept, OneInOrder
<1>4. ASSUME NEW c \in Conns, RegistrationFails(c) PROVE EventsInOrder'
  BY <1>1, <1>4, CleanupInOrder, OneInOrder DEF RegistrationFails, Become
<1>5. ASSUME NEW c \in Conns, Keepalive(c) PROVE EventsInOrder'
  BY <1>1, <1>5, CommentInOrder, OneInOrder DEF Keepalive, Become
<1>6. ASSUME NEW c \in Conns, WriteDone(c) PROVE EventsInOrder'
  BY <1>1, <1>6, WrittenInOrder, OneInOrder DEF WriteDone, Become
<1>7. ASSUME NEW c \in Conns, WriteFails(c) PROVE EventsInOrder'
  <2> DEFINE q == Cleanup(conn[c])
             s == [q EXCEPT !.flushing = FALSE, !.awaiting = "none"]
  <2>1. Sound(q) /\ q.closed /\ InOrder(q)
    BY <1>1, CleanupSound, CleanupInOrder DEF Later
  <2>2. conn' = [conn EXCEPT ![c] = s]
    BY <1>7 DEF WriteFails, Become
  <2> HIDE DEF q
  <2>3. s.wire = q.wire /\ s.closed = q.closed
    BY <2>1 DEF Sound, Shape
  <2> HIDE DEF s
  <2> QED
    BY <2>1, <2>2, <2>3, OrderKept, OneInOrder
<1>8. ASSUME NEW c \in Conns, ResponseClose(c) PROVE EventsInOrder'
  <2> DEFINE left == [conn[c] EXCEPT !.gone = TRUE]
             s == IF phase[c] = "registered" THEN Cleanup(left) ELSE left
  <2>1. left \in Shape
    BY <1>1, Zenon DEF Shape
  <2>2. /\ left.wire = conn[c].wire /\ left.queue = conn[c].queue
        /\ left.nextId = conn[c].nextId
        /\ left.closed = conn[c].closed /\ left.ended = conn[c].ended
    BY <1>1 DEF Shape
  <2>3. conn' = [conn EXCEPT ![c] = s]
    BY <1>8 DEF ResponseClose, Become
  <2> HIDE DEF left
  <2>4. InOrder(left)
    BY <1>1, <2>2, OrderKept
  <2>5. InOrder(s)
    BY <2>1, <2>4, CleanupInOrder
  <2> HIDE DEF s
  <2> QED
    BY <2>3, <2>5, OneInOrder
<1>9. ASSUME NEW c \in Conns, LeaseLost(c) PROVE EventsInOrder'
  <2> DEFINE s == [conn[c] EXCEPT !.ended = TRUE]
  <2>1. conn' = [conn EXCEPT ![c] = s]
    BY <1>9 DEF LeaseLost
  <2>2. s.wire = conn[c].wire /\ s.ended
    BY <1>1 DEF Shape
  <2> HIDE DEF s
  <2> QED
    BY <1>1, <2>1, <2>2, OrderKept, OneInOrder
<1>10. ASSUME NEW k \in Keys, NEW size \in EventSizes, NEW matching \in SUBSET index[k],
              RouteEvent(k, matching, size)
       PROVE  EventsInOrder'
  <2>1. conn' = [c \in Conns |-> IF c \in matching THEN Route(conn[c], size) ELSE conn[c]]
    BY <1>10 DEF RouteEvent, Become
  <2>2. \A c \in Conns : InOrder(Route(conn[c], size))
    BY <1>1, RouteInOrder
  <2>3. \A c \in Conns : InOrder(conn'[c])
    BY <1>1, <2>1, <2>2
  <2> QED
    BY <2>3 DEF EventsInOrder
<1>11. ASSUME CloseAll PROVE EventsInOrder'
  <2>1. conn' = [c \in Conns |-> IF c \in ById THEN Cleanup(conn[c]) ELSE conn[c]]
    BY <1>11 DEF CloseAll, Become
  <2>2. \A c \in Conns : InOrder(Cleanup(conn[c]))
    BY <1>1, CleanupInOrder
  <2>3. \A c \in Conns : InOrder(conn'[c])
    BY <1>1, <2>1, <2>2
  <2> QED
    BY <2>3 DEF EventsInOrder
<1>12. CASE UNCHANGED vars
  BY <1>12 DEF vars, EventsInOrder
<1> QED
  BY <1>2, <1>3, <1>4, <1>5, <1>6, <1>7, <1>8, <1>9, <1>10, <1>11, <1>12
     DEF Next, WriteSettles

\* For any number of connections and events, frame sizes and limits, the events
\* written to an open or closed connection are its first ones, in order and
\* without a gap, and an open connection has the others in its queue.
THEOREM EventsInOrderAlways == Spec => []EventsInOrder
BY InitInOrder, StepInOrder, BrokerInvariant, PTL DEF Spec

-----------------------------------------------------------------------------
(* queuedBytes.                                                            *)

\* A queue has finitely many bytes.
LEMMA BytesFinite ==
    ASSUME NEW q \in Seq(Frame)
    PROVE  /\ IsFiniteSet(QueuedBytes(q)) /\ Cardinality(QueuedBytes(q)) \in Nat
           /\ \A i \in DOMAIN q : /\ q[i].size \in Nat
                                  /\ IsFiniteSet(BytesAt(q, i))
                                  /\ Cardinality(BytesAt(q, i)) = q[i].size
<1>1. ASSUME NEW i \in DOMAIN q
      PROVE  /\ q[i].size \in Nat
             /\ IsFiniteSet(BytesAt(q, i)) /\ Cardinality(BytesAt(q, i)) = q[i].size
  <2> DEFINE n == q[i].size
  <2>1. n \in Nat
    <3>1. q[i] \in Frame
      OBVIOUS
    <3> QED
      BY <3>1 DEF Frame
  <2> HIDE DEF n
  <2>2. IsFiniteSet(1..n) /\ Cardinality(1..n) = n
    <3>1. IsFiniteSet(1..n) /\ Cardinality(1..n) = IF 1 > n THEN 0 ELSE n - 1 + 1
      BY <2>1, FS_Interval
    <3> QED
      BY <2>1, <3>1
  <2>3. IsFiniteSet({i}) /\ Cardinality({i}) = 1
    BY FS_Singleton
  <2>4. IsFiniteSet({i} \X (1..n)) /\ Cardinality({i} \X (1..n)) = 1 * n
    BY <2>2, <2>3, FS_Product
  <2>5. BytesAt(q, i) = {i} \X (1..n)
    BY DEF BytesAt, n
  <2> QED
    BY <2>1, <2>4, <2>5 DEF n
<1>2. IsFiniteSet(DOMAIN q)
  <2>1. DOMAIN q = 1..Len(q) /\ Len(q) \in Int
    OBVIOUS
  <2> QED
    BY <2>1, FS_Interval
<1> DEFINE places == {BytesAt(q, i) : i \in DOMAIN q}
           at == [i \in DOMAIN q |-> BytesAt(q, i)]
<1>3. at \in Surjection(DOMAIN q, places)
  BY DEF Surjection
<1>4. IsFiniteSet(places)
  <2> HIDE DEF at, places
  <2> QED
    BY <1>2, <1>3, FS_Surjection
<1>5. \A T \in places : IsFiniteSet(T)
  BY <1>1
<1>6. IsFiniteSet(UNION places)
  <2> HIDE DEF places
  <2> QED
    BY <1>4, <1>5, FS_UNION
<1>7. QueuedBytes(q) = UNION places
  BY DEF QueuedBytes
<1> HIDE DEF places, at
<1> QED
  BY <1>1, <1>6, <1>7, FS_CardinalityType

\* A frame adds its size to the bytes of the queue.
LEMMA BytesOfAppend ==
    ASSUME NEW q \in Seq(Frame), NEW frame \in Frame
    PROVE  Cardinality(QueuedBytes(Append(q, frame))) = Cardinality(QueuedBytes(q)) + frame.size
<1> DEFINE a == Append(q, frame)
           n == Len(q) + 1
<1>1. /\ a \in Seq(Frame) /\ DOMAIN q = 1..Len(q) /\ DOMAIN a = DOMAIN q \cup {n}
      /\ Len(q) \in Nat /\ n \notin DOMAIN q
      /\ \A i \in DOMAIN q : a[i] = q[i]
      /\ a[n] = frame
  OBVIOUS
<1> HIDE DEF a, n
<1>2. \A i \in DOMAIN q : BytesAt(a, i) = BytesAt(q, i)
  BY <1>1 DEF BytesAt
<1>3. QueuedBytes(a) = QueuedBytes(q) \cup BytesAt(a, n)
  BY <1>1, <1>2 DEF QueuedBytes
<1>4. QueuedBytes(q) \cap BytesAt(a, n) = {}
  <2>1. ASSUME NEW x \in BytesAt(a, n), NEW i \in DOMAIN q, x \in BytesAt(q, i) PROVE FALSE
    <3>1. x[1] = n /\ x[1] = i
      BY <2>1 DEF BytesAt
    <3> QED
      BY <1>1, <3>1
  <2> QED
    BY <2>1 DEF QueuedBytes
<1>5. /\ IsFiniteSet(QueuedBytes(q)) /\ Cardinality(QueuedBytes(q)) \in Nat
      /\ IsFiniteSet(BytesAt(a, n)) /\ Cardinality(BytesAt(a, n)) = frame.size /\ frame.size \in Nat
  BY <1>1, BytesFinite
<1>6. Cardinality(QueuedBytes(a)) =
         Cardinality(QueuedBytes(q)) + Cardinality(BytesAt(a, n)) - Cardinality({})
  BY <1>3, <1>4, <1>5, FS_Union
<1> QED
  BY <1>5, <1>6, FS_EmptySet DEF a

\* The frame taken from the front subtracts its size.
LEMMA BytesOfTail ==
    ASSUME NEW q \in Seq(Frame), q # <<>>
    PROVE  Cardinality(QueuedBytes(Tail(q))) = Cardinality(QueuedBytes(q)) - Head(q).size
<1> DEFINE t == Tail(q)
           R == UNION {BytesAt(q, i) : i \in DOMAIN q \ {1}}
           moved == [x \in R |-> <<x[1] - 1, x[2]>>]
<1>1. /\ t \in Seq(Frame) /\ DOMAIN q = 1..Len(q) /\ DOMAIN t = 1..Len(t)
      /\ Len(q) \in Nat \ {0} /\ Len(t) = Len(q) - 1 /\ Head(q) = q[1]
      /\ 1 \in DOMAIN q
  OBVIOUS
<1>2. \A i \in DOMAIN t : t[i] = q[i + 1]
  BY <1>1
<1> HIDE DEF t
<1>3. QueuedBytes(q) = BytesAt(q, 1) \cup R
  BY <1>1 DEF QueuedBytes
<1>4. BytesAt(q, 1) \cap R = {}
  <2>1. ASSUME NEW x \in BytesAt(q, 1), NEW i \in DOMAIN q \ {1}, x \in BytesAt(q, i) PROVE FALSE
    <3>1. x[1] = 1 /\ x[1] = i
      BY <2>1 DEF BytesAt
    <3> QED
      BY <3>1
  <2> QED
    BY <2>1
<1>5. \A x : x \in R <=>
         \E i \in DOMAIN q \ {1} : \E b \in 1..q[i].size : x = <<i, b>>
  BY DEF BytesAt
<1>6. \A x : x \in QueuedBytes(t) <=>
         \E i \in DOMAIN t : \E b \in 1..t[i].size : x = <<i, b>>
  BY DEF BytesAt, QueuedBytes
<1>7. moved \in Bijection(R, QueuedBytes(t))
  <2>1. ASSUME NEW x \in R PROVE moved[x] \in QueuedBytes(t)
    <3>a. PICK i \in DOMAIN q \ {1} : \E b \in 1..q[i].size : x = <<i, b>>
      BY <1>5
    <3>1. PICK b \in 1..q[i].size : x = <<i, b>>
      BY <3>a
    <3>2. i - 1 \in DOMAIN t /\ i - 1 + 1 = i
      BY <1>1
    <3>3. t[i - 1] = q[i]
      BY <1>2, <3>2
    <3>4. moved[x] = <<i - 1, b>>
      BY <3>1
    <3> QED
      BY <1>6, <3>2, <3>3, <3>4
  <2>2. ASSUME NEW x \in R, NEW y \in R, moved[x] = moved[y] PROVE x = y
    <3>a. PICK i \in DOMAIN q \ {1} : \E b \in 1..q[i].size : x = <<i, b>>
      BY <1>5
    <3>1. PICK b \in 1..q[i].size : x = <<i, b>>
      BY <3>a
    <3>b. PICK j \in DOMAIN q \ {1} : \E d \in 1..q[j].size : y = <<j, d>>
      BY <1>5
    <3>2. PICK d \in 1..q[j].size : y = <<j, d>>
      BY <3>b
    <3>3. i - 1 = j - 1 /\ b = d
      BY <2>2, <3>1, <3>2
    <3>4. i = j
      BY <1>1, <3>3
    <3> QED
      BY <3>1, <3>2, <3>3, <3>4
  <2>3. ASSUME NEW z \in QueuedBytes(t) PROVE \E x \in R : moved[x] = z
    <3>a. PICK i \in DOMAIN t : \E b \in 1..t[i].size : z = <<i, b>>
      BY <1>6
    <3>1. PICK b \in 1..t[i].size : z = <<i, b>>
      BY <3>a
    <3>2. i + 1 \in DOMAIN q \ {1} /\ i + 1 - 1 = i /\ q[i + 1] = t[i]
      BY <1>1, <1>2
    <3>3. <<i + 1, b>> \in R
      BY <1>5, <3>1, <3>2
    <3> DEFINE x == <<i + 1, b>>
    <3>4. x[1] = i + 1 /\ x[2] = b
      OBVIOUS
    <3> HIDE DEF x
    <3>5. moved[x] = <<x[1] - 1, x[2]>>
      BY <3>3 DEF x
    <3>6. x \in R
      BY <3>3 DEF x
    <3> HIDE DEF R, moved
    <3>7. x[1] - 1 = i
      BY <3>2, <3>4
    <3> QED
      BY <3>1, <3>4, <3>5, <3>6, <3>7
  <2>4. moved \in [R -> QueuedBytes(t)]
    BY <2>1
  <2> HIDE DEF moved, R
  <2> QED
    BY <2>2, <2>3, <2>4, Fun_IsBij
<1>8. /\ IsFiniteSet(QueuedBytes(q)) /\ Cardinality(QueuedBytes(q)) \in Nat
      /\ IsFiniteSet(BytesAt(q, 1)) /\ Cardinality(BytesAt(q, 1)) = q[1].size /\ q[1].size \in Nat
  BY <1>1, BytesFinite
<1>9. IsFiniteSet(R) /\ Cardinality(R) \in Nat
  <2>1. R \subseteq QueuedBytes(q)
    BY <1>3
  <2> HIDE DEF R
  <2> QED
    BY <1>8, <2>1, FS_Subset, FS_CardinalityType
<1>10. Cardinality(QueuedBytes(t)) = Cardinality(R)
  <2>1. ExistsBijection(R, QueuedBytes(t))
    BY <1>7, Fun_ExistsBij
  <2> HIDE DEF R
  <2> QED
    BY <1>9, <2>1, FS_Bijection
<1>11. Cardinality(QueuedBytes(q)) = Cardinality(BytesAt(q, 1)) + Cardinality(R) - Cardinality({})
  <2> HIDE DEF R
  <2> QED
    BY <1>3, <1>4, <1>8, <1>9, FS_Union
<1> HIDE DEF R
<1> QED
  BY <1>1, <1>8, <1>9, <1>10, <1>11, FS_EmptySet DEF t

\* queuedBytes is right.
Counted(r) == r.bytes = Cardinality(QueuedBytes(r.queue))

\* An empty queue has no bytes.
LEMMA NoBytes ==
    ASSUME NEW r, r.queue = <<>>, r.bytes = 0
    PROVE  Counted(r)
<1>1. QueuedBytes(<<>>) = {}
  BY DEF QueuedBytes
<1> QED
  BY <1>1, FS_EmptySet DEF Counted

LEMMA CleanupCounted ==
    ASSUME NEW r \in Shape, Counted(r)
    PROVE  Counted(Cleanup(r))
<1>1. CASE r.closed
  BY <1>1 DEF Cleanup
<1>2. CASE ~r.closed
  <2>1. Cleanup(r).queue = <<>> /\ Cleanup(r).bytes = 0
    BY <1>2 DEF Cleanup, Shape
  <2> QED
    BY <2>1, NoBytes
<1> QED
  BY <1>1, <1>2

LEMMA FlushTurnCounted ==
    ASSUME NEW r \in Shape, Counted(r)
    PROVE  Counted(FlushTurn(r))
<1>1. CASE r.queue = <<>>
  <2>1. FlushTurn(r).queue = r.queue /\ FlushTurn(r).bytes = r.bytes
    BY <1>1 DEF FlushTurn, Shape
  <2> QED
    BY <2>1 DEF Counted
<1>2. CASE r.queue # <<>>
  <2>1. /\ FlushTurn(r).queue = Tail(r.queue)
        /\ FlushTurn(r).bytes = r.bytes - Head(r.queue).size
    BY <1>2 DEF FlushTurn, Shape
  <2>2. r.queue \in Seq(Frame)
    BY DEF Shape
  <2> QED
    BY <1>2, <2>1, <2>2, BytesOfTail DEF Counted
<1> QED
  BY <1>1, <1>2

LEMMA EnqueueCounted ==
    ASSUME NEW r \in Shape, Counted(r), NEW frame \in Frame
    PROVE  Counted(Enqueue(r, frame))
<1>1. CASE r.closed
  BY <1>1 DEF Enqueue
<1>2. CASE ~r.closed /\ Overflows(r, frame)
  BY <1>2, CleanupCounted DEF Enqueue
<1>3. CASE ~r.closed /\ ~Overflows(r, frame)
  <2>1. Enqueue(r, frame) =
          IF Longer(r, frame).flushing THEN Longer(r, frame) ELSE FlushTurn(Longer(r, frame))
    BY <1>3 DEF Enqueue, Longer
  <2>2. /\ Longer(r, frame).queue = Append(r.queue, frame)
        /\ Longer(r, frame).bytes = r.bytes + frame.size
        /\ r.queue \in Seq(Frame)
    BY DEF Longer, Shape
  <2>3. Counted(Longer(r, frame))
    BY <2>2, BytesOfAppend DEF Counted
  <2> QED
    BY <2>1, <2>3, LongerShape, FlushTurnCounted
<1> QED
  BY <1>1, <1>2, <1>3

LEMMA RouteCounted ==
    ASSUME NEW r \in Shape, Counted(r), NEW size \in EventSizes
    PROVE  Counted(Route(r, size))
<1> DEFINE s == [r EXCEPT !.nextId = @ + 1]
<1>1. r.nextId \in Nat
  BY DEF Shape
<1>2. s \in Shape
  <2>1. r.nextId + 1 \in Nat \ {0}
    BY <1>1
  <2> QED
    BY <2>1, Zenon DEF Shape
<1>3. s.queue = r.queue /\ s.bytes = r.bytes
  BY DEF Shape
<1>4. Route(r, size) = Enqueue(s, EventFrame(r.nextId, size))
  BY DEF Route
<1> HIDE DEF s
<1>5. Counted(s)
  BY <1>3 DEF Counted
<1> QED
  BY <1>1, <1>2, <1>4, <1>5, Frames, EnqueueCounted

LEMMA WrittenCounted ==
    ASSUME NEW r \in Shape, Counted(r)
    PROVE  Counted(Written(r))
<1>1. CASE r.closed
  <2>1. Written(r).queue = r.queue /\ Written(r).bytes = r.bytes
    BY <1>1 DEF Written, Shape
  <2> QED
    BY <2>1 DEF Counted
<1>2. CASE ~r.closed
  BY <1>2, FlushTurnCounted DEF Written
<1> QED
  BY <1>1, <1>2

AllCounted == \A c \in Conns : Counted(conn[c])

\* A step that changes one connection.
LEMMA OneCounted ==
    ASSUME IInv, AllCounted, NEW c \in Conns, NEW s, Counted(s),
           conn' = [conn EXCEPT ![c] = s]
    PROVE  AllCounted'
<1>1. \A d \in Conns : conn'[d] = IF d = c THEN s ELSE conn[d]
  BY DEF IInv
<1> QED
  BY <1>1 DEF AllCounted

\* A step that leaves the queue of a connection alone.
LEMMA SameQueue ==
    ASSUME NEW r, NEW s, Counted(r), s.queue = r.queue, s.bytes = r.bytes
    PROVE  Counted(s)
BY DEF Counted

LEMMA InitCounted == Init => AllCounted
<1>1. NewConnection.queue = <<>> /\ NewConnection.bytes = 0
  BY DEF NewConnection
<1> QED
  BY <1>1, NoBytes DEF Init, AllCounted

\* Every step of the broker keeps queuedBytes right.
LEMMA StepCounted == IInv /\ AllCounted /\ [Next]_vars => AllCounted'
<1> SUFFICES ASSUME IInv, AllCounted, [Next]_vars PROVE AllCounted'
  OBVIOUS
<1>1. \A c \in Conns : Sound(conn[c]) /\ conn[c] \in Shape /\ Counted(conn[c])
  BY DEF IInv, AllCounted
<1>2. ASSUME NEW c \in Conns, Register(c) PROVE AllCounted'
  <2> DEFINE s == [conn[c] EXCEPT !.increments = @ + 1]
  <2>1. conn' = [conn EXCEPT ![c] = s]
    BY <1>2 DEF Register
  <2>2. s.queue = conn[c].queue /\ s.bytes = conn[c].bytes
    BY <1>1 DEF Shape
  <2> HIDE DEF s
  <2> QED
    BY <1>1, <2>1, <2>2, SameQueue, OneCounted
<1>3. ASSUME NEW c \in Conns, Registered(c) PROVE AllCounted'
  <2> DEFINE first == Enqueue(conn[c], Comment)
             greeted == Enqueue(first, Comment)
             s == [greeted EXCEPT !.timer = TRUE]
  <2>1. first \in Shape /\ Sound(first) /\ Counted(first)
    BY <1>1, Frames, EnqueueSound, EnqueueCounted DEF Later, Sound
  <2> HIDE DEF first
  <2>2. greeted \in Shape /\ Counted(greeted)
    BY <2>1, Frames, EnqueueSound, EnqueueCounted DEF Later, Sound
  <2> HIDE DEF greeted
  <2>3. s.queue = greeted.queue /\ s.bytes = greeted.bytes
    BY <2>2 DEF Shape
  <2>4. conn' = [conn EXCEPT ![c] = s]
    BY <1>3 DEF Registered, Become, greeted, first
  <2> HIDE DEF s
  <2> QED
    BY <2>2, <2>3, <2>4, SameQueue, OneCounted
<1>4. ASSUME NEW c \in Conns, RegistrationFails(c) PROVE AllCounted'
  BY <1>1, <1>4, CleanupCounted, OneCounted DEF RegistrationFails, Become
<1>5. ASSUME NEW c \in Conns, Keepalive(c) PROVE AllCounted'
  BY <1>1, <1>5, Frames, EnqueueCounted, OneCounted DEF Keepalive, Become
<1>6. ASSUME NEW c \in Conns, WriteDone(c) PROVE AllCounted'
  BY <1>1, <1>6, WrittenCounted, OneCounted DEF WriteDone, Become
<1>7. ASSUME NEW c \in Conns, WriteFails(c) PROVE AllCounted'
  <2> DEFINE q == Cleanup(conn[c])
             s == [q EXCEPT !.flushing = FALSE, !.awaiting = "none"]
  <2>1. q \in Shape /\ Counted(q)
    BY <1>1, CleanupSound, CleanupCounted DEF Later, Sound
  <2>2. conn' = [conn EXCEPT ![c] = s]
    BY <1>7 DEF WriteFails, Become
  <2> HIDE DEF q
  <2>3. s.queue = q.queue /\ s.bytes = q.bytes
    BY <2>1 DEF Shape
  <2> HIDE DEF s
  <2> QED
    BY <2>1, <2>2, <2>3, SameQueue, OneCounted
<1>8. ASSUME NEW c \in Conns, ResponseClose(c) PROVE AllCounted'
  <2> DEFINE left == [conn[c] EXCEPT !.gone = TRUE]
             s == IF phase[c] = "registered" THEN Cleanup(left) ELSE left
  <2>1. left \in Shape
    BY <1>1, Zenon DEF Shape
  <2>2. left.queue = conn[c].queue /\ left.bytes = conn[c].bytes
    BY <1>1 DEF Shape
  <2>3. conn' = [conn EXCEPT ![c] = s]
    BY <1>8 DEF ResponseClose, Become
  <2> HIDE DEF left
  <2>4. Counted(s)
    BY <1>1, <2>1, <2>2, SameQueue, CleanupCounted
  <2> HIDE DEF s
  <2> QED
    BY <2>3, <2>4, OneCounted
<1>9. ASSUME NEW c \in Conns, LeaseLost(c) PROVE AllCounted'
  <2> DEFINE s == [conn[c] EXCEPT !.ended = TRUE]
  <2>1. conn' = [conn EXCEPT ![c] = s]
    BY <1>9 DEF LeaseLost
  <2>2. s.queue = conn[c].queue /\ s.bytes = conn[c].bytes
    BY <1>1 DEF Shape
  <2> HIDE DEF s
  <2> QED
    BY <1>1, <2>1, <2>2, SameQueue, OneCounted
<1>10. ASSUME NEW k \in Keys, NEW size \in EventSizes, NEW matching \in SUBSET index[k],
              RouteEvent(k, matching, size)
       PROVE  AllCounted'
  <2>1. conn' = [c \in Conns |-> IF c \in matching THEN Route(conn[c], size) ELSE conn[c]]
    BY <1>10 DEF RouteEvent, Become
  <2>2. \A c \in Conns : Counted(Route(conn[c], size))
    BY <1>1, RouteCounted
  <2>3. \A c \in Conns : Counted(conn'[c])
    BY <1>1, <2>1, <2>2
  <2> QED
    BY <2>3 DEF AllCounted
<1>11. ASSUME CloseAll PROVE AllCounted'
  <2>1. conn' = [c \in Conns |-> IF c \in ById THEN Cleanup(conn[c]) ELSE conn[c]]
    BY <1>11 DEF CloseAll, Become
  <2>2. \A c \in Conns : Counted(Cleanup(conn[c]))
    BY <1>1, CleanupCounted
  <2>3. \A c \in Conns : Counted(conn'[c])
    BY <1>1, <2>1, <2>2
  <2> QED
    BY <2>3 DEF AllCounted
<1>12. CASE UNCHANGED vars
  BY <1>12 DEF vars, AllCounted
<1> QED
  BY <1>2, <1>3, <1>4, <1>5, <1>6, <1>7, <1>8, <1>9, <1>10, <1>11, <1>12
     DEF Next, WriteSettles

\* For any connections, frame sizes and limits, through every end and restart of
\* a flush loop: frames that wait have a loop that takes them, and queuedBytes,
\* which decides whether a client is too slow, is the size of the queue.
THEOREM QueueIsServedAlways == Spec => []QueueIsServed
<1>1. Spec => []AllCounted
  BY InitCounted, StepCounted, BrokerInvariant, PTL DEF Spec
<1>2. IInv /\ AllCounted => QueueIsServed
  BY DEF IInv, Sound, AllCounted, Counted, QueueIsServed
<1> QED
  BY <1>1, <1>2, BrokerInvariant, PTL

\* The variables that the inductive invariant leaves open.
FlagsTyped == deaf \in [Conns -> BOOLEAN] /\ isDown \in BOOLEAN

\* The records, the index and the registrations are well typed for any instance;
\* in particular queuedBytes never falls below zero.
THEOREM TypeCorrect == Spec => []TypeOK
<1>1. Init => FlagsTyped
  BY DEF Init, FlagsTyped
<1>2. IInv /\ FlagsTyped /\ [Next]_vars => FlagsTyped'
  <2> SUFFICES ASSUME IInv, FlagsTyped, [Next]_vars PROVE FlagsTyped'
    OBVIOUS
  <2>1. \A c \in Conns : /\ conn[c].ended \in BOOLEAN /\ conn[c].gone \in BOOLEAN
                         /\ (conn[c].ended /\ conn[c].gone) \in BOOLEAN
                         /\ (conn[c].gone /\ phase[c] = "registered") \in BOOLEAN
    BY DEF IInv, Shape
  <2>2. isDown' \in BOOLEAN
    BY DEF FlagsTyped, Next, vars, Register, Registered, RegistrationFails, Keepalive,
           WriteSettles, WriteDone, WriteFails, ResponseClose, LeaseLost, RouteEvent, CloseAll
  <2>3. deaf' = deaf \/ \E c \in Conns, b \in BOOLEAN : deaf' = [deaf EXCEPT ![c] = b]
    BY <2>1 DEF Next, vars, Register, Registered, RegistrationFails, Keepalive,
           WriteSettles, WriteDone, WriteFails, ResponseClose, LeaseLost, RouteEvent, CloseAll
  <2> QED
    BY <2>2, <2>3 DEF FlagsTyped
<1>3. Spec => []FlagsTyped
  BY <1>1, <1>2, BrokerInvariant, PTL DEF Spec
<1>4. Spec => []AllCounted
  BY InitCounted, StepCounted, BrokerInvariant, PTL DEF Spec
<1>5. IInv /\ AllCounted /\ FlagsTyped => TypeOK
  <2> SUFFICES ASSUME IInv, AllCounted, FlagsTyped PROVE TypeOK
    OBVIOUS
  <2>1. ASSUME NEW c \in Conns PROVE conn[c] \in Connection
    <3>1. conn[c] \in Shape
      BY DEF IInv
    <3>2. conn[c].bytes \in Nat
      <4>1. conn[c].queue \in Seq(Frame)
        BY <3>1 DEF Shape
      <4> QED
        BY <4>1, BytesFinite DEF AllCounted, Counted
    <3> QED
      BY <3>1, <3>2, Zenon DEF Shape, Connection
  <2>2. conn \in [Conns -> Connection]
    BY <2>1 DEF IInv
  <2> QED
    BY <2>2 DEF IInv, FlagsTyped, TypeOK
<1> QED
  BY <1>3, <1>4, <1>5, BrokerInvariant, PTL

=============================================================================
