------------------------------- MODULE Ingest -------------------------------
(***************************************************************************)
(* The way of a message from the EDDN feed to the database: the listener   *)
(* adds it to the BullMQ queue, the worker processes it.                   *)
(*                                                                         *)
(* All messages are of one system and replace all that is known of it; they *)
(* are numbered in the order in which the listener received them.  Four    *)
(* jobs run at once, a failed one comes back after a delay, a job whose    *)
(* worker died or seems to have comes back, and an add that was answered   *)
(* too late or not at all takes effect all the same: the database may end  *)
(* with an old message.                                                    *)
(***************************************************************************)
EXTENDS Integers, Sequences, FiniteSets

CONSTANTS
    Slots,        \* jobs the worker runs at once (EDDN_WORKER_CONCURRENCY)
    Attempts,     \* attempts of a job
    MaxStalls,    \* times a job may stall (maxStalledCount of BullMQ)
    MaxMessages,  \* bound: messages received
    MaxFaults     \* bound: timeouts, broken connections and crashes

ASSUME IngestAssumption ==
    /\ {Attempts, MaxMessages} \subseteq Nat \ {0}
    /\ {MaxStalls, MaxFaults} \subseteq Nat

VARIABLES
    received,   \* messages the listener has received
    awaited,    \* the message whose add the listener awaits, 0: none
    sent,       \* adds sent to Redis and not executed, in order
    answers,    \* adds executed whose reply is on the way, in order
    waiting,    \* jobs of the waiting list, the next one first
    delayed,    \* jobs that wait for their backoff
    active,     \* the job of each slot
    lost,       \* the message of a handler whose job was taken from it, 0: none
    db,         \* the message of the last transaction that was committed
    ended,      \* history: messages that were applied or given up
    faults

listenerVars == <<received, awaited, sent, answers>>
queueVars == <<waiting, delayed, active, lost>>
vars == <<listenerVars, queueVars, db, ended, faults>>

Messages == 1 .. MaxMessages
\* made: attempts made; again: the message had been added before; beside: a
\* newer message ran in another slot at the same time; done: committed.
Job == [m : Messages, made : 0 .. Attempts, stalls : 0 .. MaxStalls, again : BOOLEAN,
        beside : BOOLEAN, done : BOOLEAN]
NoJob == [m |-> 0]
Busy == {s \in Slots : active[s] # NoJob}

TypeOK ==
    /\ received \in 0 .. MaxMessages
    /\ awaited \in 0 .. MaxMessages
    /\ sent \in Seq(Messages) /\ answers \in Seq(Messages)
    /\ waiting \in Seq(Job)
    /\ delayed \subseteq Job
    /\ \A s \in Busy : active[s] \in Job /\ active[s].made < Attempts
    /\ lost \in [Slots -> 0 .. MaxMessages]
    /\ db \in 0 .. MaxMessages
    /\ ended \subseteq 1 .. received
    /\ faults \in 0 .. MaxFaults

Init ==
    /\ received = 0 /\ awaited = 0 /\ sent = <<>> /\ answers = <<>>
    /\ waiting = <<>> /\ delayed = {} /\ active = [s \in Slots |-> NoJob]
    /\ lost = [s \in Slots |-> 0] /\ db = 0 /\ ended = {} /\ faults = 0

Fault == faults < MaxFaults /\ faults' = faults + 1

-----------------------------------------------------------------------------
(* The listener: run and addToQueueOrThrow.                                *)

\* The loop takes the next supported message and calls queue.add.
Receive ==
    /\ awaited = 0
    /\ received < MaxMessages
    /\ received' = received + 1
    /\ awaited' = received'
    /\ sent' = Append(sent, received')
    /\ UNCHANGED <<answers, queueVars, db, ended, faults>>

\* QUEUE_ADD_TIMEOUT_MS passes first: an error is logged, the add stays sent.
AddTimesOut ==
    /\ awaited # 0
    /\ Fault
    /\ awaited' = 0
    /\ UNCHANGED <<received, sent, answers, queueVars, db, ended>>

Known(m) == m \in ended \/ \E j \in delayed \cup {waiting[i] : i \in DOMAIN waiting}
                                    \cup {active[s] : s \in Busy} : j.m = m
\* Mutant of Add: the newest job comes first.
AddFirst ==
    /\ sent # <<>>
    /\ waiting' = <<[m |-> Head(sent), made |-> 0, stalls |-> 0, again |-> Known(Head(sent)),
                     beside |-> FALSE, done |-> FALSE]>> \o waiting
    /\ answers' = Append(answers, Head(sent))
    /\ sent' = Tail(sent)
    /\ UNCHANGED <<received, awaited, delayed, active, lost, db, ended, faults>>

\* Redis executes the oldest add.  BullMQ gives every add an id of its own: an
\* add that is sent again makes another job.
Add ==
    /\ sent # <<>>
    /\ waiting' = Append(waiting, [m |-> Head(sent), made |-> 0, stalls |-> 0,
                                   again |-> Known(Head(sent)), beside |-> FALSE, done |-> FALSE])
    /\ answers' = Append(answers, Head(sent))
    /\ sent' = Tail(sent)
    /\ UNCHANGED <<received, awaited, delayed, active, lost, db, ended, faults>>

\* The reply arrives; a late one is for nobody.
Answer ==
    /\ answers # <<>>
    /\ answers' = Tail(answers)
    /\ awaited' = IF awaited = Head(answers) THEN 0 ELSE awaited
    /\ UNCHANGED <<received, sent, queueVars, db, ended, faults>>

\* The connection breaks; ioredis sends again what was not answered.
ConnectionLost ==
    /\ answers # <<>>
    /\ Fault
    /\ sent' = answers \o sent
    /\ answers' = <<>>
    /\ UNCHANGED <<received, awaited, queueVars, db, ended>>

\* The listener dies or is stopped; what it had sent may be lost.
ListenerRestart ==
    /\ Fault
    /\ awaited' = 0
    /\ sent' = <<>>
    /\ answers' = <<>>
    /\ UNCHANGED <<received, queueVars, db, ended>>

-----------------------------------------------------------------------------
(* The worker: createEddnWorker.                                           *)

\* A free slot takes the next job.
Take(s) ==
    LET job == Head(waiting) IN
    /\ s \notin Busy /\ lost[s] = 0
    /\ waiting # <<>>
    /\ waiting' = Tail(waiting)
    /\ active' = [t \in Slots |->
                    IF t = s THEN [job EXCEPT !.beside = \E u \in Busy : active[u].m > job.m]
                    ELSE IF t \in Busy THEN [active[t] EXCEPT !.beside = @ \/ job.m > active[t].m]
                    ELSE NoJob]
    /\ UNCHANGED <<listenerVars, delayed, lost, db, ended, faults>>

\* The transaction of the handler commits.
Commit(s) ==
    /\ s \in Busy /\ ~active[s].done
    /\ db' = active[s].m
    /\ ended' = ended \cup {active[s].m}
    /\ active' = [active EXCEPT ![s].done = TRUE]
    /\ UNCHANGED <<listenerVars, waiting, delayed, lost, faults>>

\* The handler returned: the job is removed.
Complete(s) ==
    /\ s \in Busy /\ active[s].done
    /\ active' = [active EXCEPT ![s] = NoJob]
    /\ UNCHANGED <<listenerVars, waiting, delayed, lost, db, ended, faults>>

\* A job that comes back starts afresh.
Again(job) == [job EXCEPT !.beside = FALSE, !.done = FALSE]

\* Mutant of Fail: the attempt is not counted.
FailUncounted(s) ==
    /\ s \in Busy
    /\ delayed' = delayed \cup {Again(active[s])}
    /\ active' = [active EXCEPT ![s] = NoJob]
    /\ UNCHANGED <<listenerVars, waiting, lost, db, ended, faults>>

\* Mutant of Fail: one attempt more.
FailOneMore(s) ==
    /\ s \in Busy
    /\ IF active[s].made < Attempts
       THEN delayed' = delayed \cup {[Again(active[s]) EXCEPT !.made = @ + 1]} /\ UNCHANGED ended
       ELSE ended' = ended \cup {active[s].m} /\ UNCHANGED delayed
    /\ active' = [active EXCEPT ![s] = NoJob]
    /\ UNCHANGED <<listenerVars, waiting, lost, db, faults>>

\* The transaction fails and leaves nothing, or the reply to its COMMIT is lost:
\* the job comes back after the backoff, or is given up after its last attempt.
Fail(s) ==
    /\ s \in Busy
    /\ IF active[s].made + 1 < Attempts
       THEN delayed' = delayed \cup {[Again(active[s]) EXCEPT !.made = @ + 1]} /\ UNCHANGED ended
       ELSE ended' = ended \cup {active[s].m} /\ UNCHANGED delayed
    /\ active' = [active EXCEPT ![s] = NoJob]
    /\ UNCHANGED <<listenerVars, waiting, lost, db, faults>>

\* The backoff is over: to the end of the waiting list.
Promote(job) ==
    /\ job \in delayed
    /\ delayed' = delayed \ {job}
    /\ waiting' = Append(waiting, job)
    /\ UNCHANGED <<listenerVars, active, lost, db, ended, faults>>

\* The worker dies in the middle of a job, before or after its commit, or only
\* fails to renew the job's lock in time: the check for stalled jobs puts it
\* before all others, or gives it up.  In a worker that lives the handler goes on.
Stall(s) ==
    /\ s \in Busy
    /\ IF active[s].stalls < MaxStalls
       THEN waiting' = <<[Again(active[s]) EXCEPT !.stalls = @ + 1]>> \o waiting /\ UNCHANGED ended
       ELSE ended' = ended \cup {active[s].m} /\ UNCHANGED waiting
    /\ active' = [active EXCEPT ![s] = NoJob]
    /\ \/ lost' = lost
       \/ ~active[s].done /\ lost' = [lost EXCEPT ![s] = active[s].m]
    /\ UNCHANGED <<listenerVars, delayed, db, faults>>

\* A handler without its job commits beside whoever has the job now.
LateCommit(s) ==
    /\ lost[s] # 0
    /\ db' = lost[s]
    /\ ended' = ended \cup {lost[s]}
    /\ lost' = [lost EXCEPT ![s] = 0]
    /\ UNCHANGED <<listenerVars, waiting, delayed, active, faults>>

\* Or it fails, or dies with its worker: that is for nobody.
LateFail(s) ==
    /\ lost[s] # 0
    /\ lost' = [lost EXCEPT ![s] = 0]
    /\ UNCHANGED <<listenerVars, waiting, delayed, active, db, ended, faults>>

Next ==
    \/ Receive \/ AddTimesOut \/ Add \/ Answer \/ ConnectionLost \/ ListenerRestart
    \/ \E s \in Slots :
          \/ Take(s) \/ Commit(s) \/ Complete(s) \/ Fail(s) \/ Stall(s)
          \/ LateCommit(s) \/ LateFail(s)
    \/ \E job \in delayed : Promote(job)

\* Redis answers, delays pass, and the worker goes on with every slot: statements
\* have timeouts, so each handler ends.
Fairness ==
    /\ WF_vars(Add) /\ WF_vars(Answer)
    /\ WF_vars(\E s \in Slots : Take(s))
    /\ \A s \in Slots : WF_vars(Commit(s) \/ Complete(s) \/ Fail(s))
    /\ \A s \in Slots : WF_vars(LateCommit(s) \/ LateFail(s))
    /\ WF_vars(\E job \in delayed : Promote(job))

Spec == Init /\ [][Next]_vars /\ Fairness

-----------------------------------------------------------------------------

\* The database goes back to an older message only if the two ran side by
\* side, or the older one had failed, stalled or been added again: the order
\* of the feed survives a late add, an idle worker and a long queue.
OlderOverwritesOnlyIfReordered ==
    [][db' < db =>
          \E s \in Slots :
              \/ LateCommit(s)
              \/ /\ Commit(s)
                 /\ \/ active[s].made > 0 \/ active[s].stalls > 0 \/ active[s].again
                    \/ active[s].beside]_vars

\* What the listener has handed to Redis is applied or given up in the end,
\* whatever was lost on the way.
EveryMessageEnds ==
    \A m \in Messages :
        (\E i \in DOMAIN waiting : waiting[i].m = m) ~> m \in ended
=============================================================================
