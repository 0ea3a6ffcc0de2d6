---------------------------- MODULE Ingest_proofs ----------------------------
(***************************************************************************)
(* Proofs about the way of a message for any number of slots, messages,    *)
(* attempts and faults: type correctness, and that the database goes back  *)
(* to an older message only behind a retry, a stall, a repeated add or a   *)
(* message that ran beside it.                                             *)
(***************************************************************************)
EXTENDS Ingest, SequenceTheorems, TLAPS

-----------------------------------------------------------------------------
(* The parts of the invariant.                                             *)

ListenerTyped ==
    /\ received \in 0 .. MaxMessages
    /\ awaited \in 0 .. MaxMessages
    /\ sent \in Seq(Messages) /\ answers \in Seq(Messages)
    /\ \A i \in 1 .. Len(sent) : sent[i] <= received
    /\ \A i \in 1 .. Len(answers) : answers[i] <= received
    /\ faults \in 0 .. MaxFaults
\* A job the worker may still run.
Runs(job) == job \in Job /\ job.made < Attempts /\ job.m <= received
WaitingTyped ==
    waiting \in Seq(Job) /\ \A i \in 1 .. Len(waiting) : Runs(waiting[i]) /\ ~waiting[i].done
DelayedTyped == \A j \in delayed : Runs(j) /\ j.made > 0 /\ ~j.done
ActiveTyped ==
    /\ active \in [Slots -> Job \cup {NoJob}]
    /\ \A s \in Busy : Runs(active[s]) /\ (active[s].done => active[s].m \in ended)
EndedTyped == db \in {0} \cup ended /\ ended \subseteq 1 .. received
LostTyped == lost \in [Slots -> 0 .. MaxMessages] /\ \A s \in Slots : lost[s] <= received

QueueTyped ==
    ListenerTyped /\ WaitingTyped /\ DelayedTyped /\ ActiveTyped /\ EndedTyped /\ LostTyped

\* The listener sends in the order of the feed, and what is sent again after a
\* broken connection is sent again in that order, before all that was not.
Ascending(seq) == \A i, j \in 1 .. Len(seq) : i < j => seq[i] < seq[j]
LineOrder ==
    /\ Ascending(sent) /\ Ascending(answers)
    /\ \A i \in 1 .. Len(answers), j \in 1 .. Len(sent) : answers[i] < sent[j]

\* No newer message than one that is added for the first time is known.
IsAnswered(m) == \E i \in 1 .. Len(answers) : answers[i] = m
IsSent(m) == \E i \in 1 .. Len(sent) : sent[i] = m
SentOrder ==
    \A m \in Messages :
        /\ IsAnswered(m) => Known(m)
        /\ IsSent(m) => Known(m) \/ \A n \in Messages : Known(n) => n <= m

\* A job that nothing has brought out of the order of the feed.
Fresh(job) == job.made = 0 /\ job.stalls = 0 /\ ~job.again
\* The messages that left the waiting list.
Off(n) == n \in ended \/ (\E j \in delayed : j.m = n) \/ (\E s \in Busy : active[s].m = n)
\* And those of handlers without a job.
Late(n) == \E s \in Slots : lost[s] = n
Gone(n) == Off(n) \/ Late(n)
LateKnown == \A n \in Messages : Late(n) => Known(n)

WaitingOrder ==
    \A i \in 1 .. Len(waiting) :
        Fresh(waiting[i]) =>
            /\ \A k \in 1 .. i - 1 : waiting[k].m <= waiting[i].m
            /\ \A n \in Messages : Gone(n) => n <= waiting[i].m
ActiveOrder ==
    \A s \in Busy :
        Fresh(active[s]) /\ ~active[s].beside =>
            \A n \in Messages : Gone(n) => n <= active[s].m

-----------------------------------------------------------------------------
(* Queues, position by position.                                           *)

LEMMA Appended ==
    ASSUME NEW S, NEW seq \in Seq(S), NEW x \in S
    PROVE  /\ Append(seq, x) \in Seq(S) /\ Len(Append(seq, x)) = Len(seq) + 1
           /\ \A i \in 1 .. Len(seq) : Append(seq, x)[i] = seq[i]
           /\ Append(seq, x)[Len(seq) + 1] = x
BY SMT

LEMMA Taken ==
    ASSUME NEW S, NEW seq \in Seq(S), seq # <<>>
    PROVE  /\ Len(seq) >= 1 /\ Head(seq) = seq[1] /\ Head(seq) \in S
           /\ Tail(seq) \in Seq(S) /\ Len(Tail(seq)) = Len(seq) - 1
           /\ \A i \in 1 .. Len(seq) - 1 : Tail(seq)[i] = seq[i + 1]
BY HeadTailProperties, EmptySeq

LEMMA PutFirst ==
    ASSUME NEW S, NEW seq \in Seq(S), NEW x \in S
    PROVE  /\ <<x>> \o seq \in Seq(S) /\ Len(<<x>> \o seq) = Len(seq) + 1
           /\ (<<x>> \o seq)[1] = x
           /\ \A i \in 2 .. Len(seq) + 1 : (<<x>> \o seq)[i] = seq[i - 1]
<1>1. <<x>> \in Seq(S) /\ Len(<<x>>) = 1 /\ <<x>>[1] = x
  OBVIOUS
<1>2. /\ <<x>> \o seq \in Seq(S) /\ Len(<<x>> \o seq) = 1 + Len(seq)
      /\ \A i \in 1 .. 1 + Len(seq) : (<<x>> \o seq)[i] = IF i <= 1 THEN <<x>>[i] ELSE seq[i - 1]
  BY <1>1, ConcatProperties
<1>3. Len(seq) \in Nat
  BY LenProperties
<1> QED
  BY <1>1, <1>2, <1>3

-----------------------------------------------------------------------------
(* Type correctness.                                                       *)

LEMMA Numbers ==
    /\ Attempts \in Nat /\ Attempts >= 1 /\ MaxMessages \in Nat /\ MaxMessages >= 1
    /\ MaxStalls \in Nat /\ MaxFaults \in Nat
BY IngestAssumption

LEMMA JobFields ==
    ASSUME NEW j \in Job
    PROVE  /\ j.m \in Messages /\ j.made \in 0 .. Attempts /\ j.stalls \in 0 .. MaxStalls
           /\ j.again \in BOOLEAN /\ j.beside \in BOOLEAN /\ j.done \in BOOLEAN
           /\ j # NoJob
<1>1. /\ j.m \in Messages /\ j.made \in 0 .. Attempts /\ j.stalls \in 0 .. MaxStalls
      /\ j.again \in BOOLEAN /\ j.beside \in BOOLEAN /\ j.done \in BOOLEAN
  BY DEF Job
<1>2. j # NoJob
  BY <1>1 DEF Messages, NoJob
<1> QED
  BY <1>1, <1>2

\* One field of a job changed.
Alike(j, k) == j.m = k.m /\ j.made = k.made /\ j.stalls = k.stalls /\ j.again = k.again
LEMMA WithBeside ==
    ASSUME NEW j \in Job, NEW b \in BOOLEAN
    PROVE  LET k == [j EXCEPT !.beside = b] IN
           k \in Job /\ Alike(k, j) /\ k.beside = b /\ k.done = j.done
BY DEF Job, Alike
LEMMA WithDone ==
    ASSUME NEW j \in Job, NEW b \in BOOLEAN
    PROVE  LET k == [j EXCEPT !.done = b] IN
           k \in Job /\ Alike(k, j) /\ k.beside = j.beside /\ k.done = b
BY DEF Job, Alike
LEMMA WithMade ==
    ASSUME NEW j \in Job, NEW n \in 0 .. Attempts
    PROVE  LET k == [j EXCEPT !.made = n] IN
           /\ k \in Job /\ k.m = j.m /\ k.made = n /\ k.stalls = j.stalls /\ k.done = j.done
BY DEF Job
LEMMA WithStalls ==
    ASSUME NEW j \in Job, NEW n \in 0 .. MaxStalls
    PROVE  LET k == [j EXCEPT !.stalls = n] IN
           /\ k \in Job /\ k.m = j.m /\ k.made = j.made /\ k.stalls = n /\ k.done = j.done
BY DEF Job
LEMMA Afresh ==
    ASSUME NEW j \in Job
    PROVE  Again(j) \in Job /\ Alike(Again(j), j) /\ ~Again(j).done
<1>1. Again(j) = [[j EXCEPT !.beside = FALSE] EXCEPT !.done = FALSE]
  BY DEF Again
<1>2. PICK k : k = [j EXCEPT !.beside = FALSE]
  OBVIOUS
<1>3. k \in Job /\ Alike(k, j)
  BY <1>2, WithBeside
<1>4. Again(j) = [k EXCEPT !.done = FALSE]
  BY <1>1, <1>2
<1>5. Again(j) \in Job /\ Alike(Again(j), k) /\ Again(j).done = FALSE
  BY <1>3, <1>4, WithDone
<1> QED
  BY <1>3, <1>5 DEF Alike

\* The job of a busy slot.
LEMMA BusyJob ==
    ASSUME QueueTyped, NEW s \in Busy
    PROVE  /\ s \in Slots /\ active[s] \in Job /\ active[s].made < Attempts
           /\ active[s].m \in Messages /\ active[s].m <= received
           /\ active[s].done => active[s].m \in ended
BY JobFields DEF QueueTyped, ActiveTyped, Busy, Runs

LEMMA QueueTypedGivesType == QueueTyped => TypeOK
<1> SUFFICES ASSUME QueueTyped PROVE TypeOK
  OBVIOUS
<1>1. ended \subseteq 1 .. received /\ db \in 0 .. MaxMessages
  BY Numbers DEF QueueTyped, EndedTyped, ListenerTyped
<1>2. delayed \subseteq Job
  BY DEF QueueTyped, DelayedTyped, Runs
<1>3. \A s \in Busy : active[s] \in Job /\ active[s].made < Attempts
  BY BusyJob
<1> QED
  BY <1>1, <1>2, <1>3 DEF QueueTyped, ListenerTyped, WaitingTyped, LostTyped, TypeOK

LEMMA TypeInit == Init => QueueTyped
<1> SUFFICES ASSUME Init PROVE QueueTyped
  OBVIOUS
<1>1. ListenerTyped
  BY Numbers DEF Init, ListenerTyped
<1>2. WaitingTyped /\ DelayedTyped /\ EndedTyped
  BY DEF Init, WaitingTyped, DelayedTyped, EndedTyped
<1>3. Busy = {}
  BY DEF Init, Busy
<1>4. ActiveTyped
  BY <1>3 DEF Init, ActiveTyped
<1>5. LostTyped
  BY Numbers DEF Init, LostTyped
<1> QED
  BY <1>1, <1>2, <1>4, <1>5 DEF QueueTyped

\* Steps that leave a part of the state leave what is said of it.
LEMMA Untouched ==
    ASSUME QueueTyped
    PROVE  /\ UNCHANGED <<listenerVars, faults>> => ListenerTyped'
           /\ UNCHANGED <<waiting, received>> => WaitingTyped'
           /\ UNCHANGED <<delayed, received>> => DelayedTyped'
           /\ UNCHANGED <<active, received, ended>> => ActiveTyped' /\ Busy' = Busy
           /\ UNCHANGED <<db, received, ended>> => EndedTyped'
           /\ UNCHANGED <<lost, received>> => LostTyped'
BY DEF QueueTyped, listenerVars, ListenerTyped, WaitingTyped, DelayedTyped, ActiveTyped,
       EndedTyped, LostTyped, Runs, Busy

LEMMA TypeStep == QueueTyped /\ [Next]_vars => QueueTyped'
<1> SUFFICES ASSUME QueueTyped, [Next]_vars PROVE QueueTyped'
  OBVIOUS
<1>a. ListenerTyped /\ WaitingTyped /\ DelayedTyped /\ ActiveTyped /\ EndedTyped /\ LostTyped
  BY DEF QueueTyped
<1>f. Fault => faults' \in 0 .. MaxFaults
  BY <1>a, Numbers DEF Fault, ListenerTyped
<1>1. ASSUME Receive PROVE QueueTyped'
  <2>1. /\ received' = received + 1 /\ awaited' = received + 1 /\ received < MaxMessages
        /\ sent' = Append(sent, received + 1)
        /\ UNCHANGED <<answers, waiting, delayed, active, lost, db, ended, faults>>
    BY <1>1 DEF Receive, queueVars
  <2>2. received \in Nat /\ received + 1 \in Messages
    BY <1>a, <2>1, Numbers DEF ListenerTyped, Messages
  <2>3. /\ sent' \in Seq(Messages) /\ Len(sent') = Len(sent) + 1
        /\ \A i \in 1 .. Len(sent) : sent'[i] = sent[i]
        /\ sent'[Len(sent) + 1] = received + 1
    BY <1>a, <2>1, <2>2, Appended DEF ListenerTyped
  <2>4. /\ \A i \in 1 .. Len(sent') : sent'[i] <= received'
        /\ \A i \in 1 .. Len(answers') : answers'[i] <= received'
    <3>1. ASSUME NEW i \in 1 .. Len(sent') PROVE sent'[i] <= received'
      <4>1. i \in 1 .. Len(sent) \/ i = Len(sent) + 1
        BY <2>3, <1>a, LenProperties DEF ListenerTyped
      <4>2. ASSUME i \in 1 .. Len(sent) PROVE sent[i] \in Messages /\ sent[i] <= received
        BY <1>a, <4>2, ElementOfSeq DEF ListenerTyped
      <4> QED
        BY <2>1, <2>2, <2>3, <4>1, <4>2 DEF Messages
    <3>2. ASSUME NEW i \in 1 .. Len(answers) PROVE answers[i] <= received + 1
      <4>1. answers[i] \in Messages /\ answers[i] <= received
        BY <1>a, ElementOfSeq DEF ListenerTyped
      <4> QED
        BY <2>2, <4>1 DEF Messages
    <3> QED
      BY <2>1, <3>1, <3>2
  <2>5. ListenerTyped'
    BY <1>a, <2>1, <2>2, <2>3, <2>4, Numbers DEF ListenerTyped, Messages
  <2>6. ASSUME NEW j, Runs(j) PROVE Runs(j)'
    BY <2>1, <2>2, <2>6, JobFields DEF Runs, Messages
  <2>7. Busy' = Busy
    BY <2>1 DEF Busy
  <2>8. WaitingTyped' /\ DelayedTyped' /\ ActiveTyped'
    BY <1>a, <2>1, <2>6, <2>7 DEF WaitingTyped, DelayedTyped, ActiveTyped
  <2>9. EndedTyped'
    BY <1>a, <2>1, <2>2 DEF EndedTyped
  <2>10. LostTyped'
    <3>1. ASSUME NEW s \in Slots PROVE lost[s] <= received + 1
      BY <1>a, <2>2, Numbers DEF LostTyped
    <3> QED
      BY <1>a, <2>1, <3>1 DEF LostTyped
  <2> QED
    BY <2>5, <2>8, <2>9, <2>10 DEF QueueTyped
<1>2. ASSUME AddTimesOut PROVE QueueTyped'
  <2>1. awaited' = 0 /\ UNCHANGED <<received, sent, answers>> /\ faults' \in 0 .. MaxFaults
    BY <1>2, <1>f DEF AddTimesOut
  <2>2. ListenerTyped'
    BY <1>a, <2>1, Numbers DEF ListenerTyped
  <2> QED
    BY <1>2, <2>2, Untouched DEF AddTimesOut, queueVars, QueueTyped
<1>3. ASSUME Add PROVE QueueTyped'
  <2>1. /\ Len(sent) >= 1 /\ Head(sent) = sent[1] /\ Head(sent) \in Messages
        /\ Tail(sent) \in Seq(Messages) /\ Len(Tail(sent)) = Len(sent) - 1
        /\ \A i \in 1 .. Len(sent) - 1 : Tail(sent)[i] = sent[i + 1]
    BY <1>3, <1>a, Taken DEF Add, ListenerTyped
  <2>2. /\ Append(answers, Head(sent)) \in Seq(Messages)
        /\ Len(Append(answers, Head(sent))) = Len(answers) + 1
        /\ \A i \in 1 .. Len(answers) : Append(answers, Head(sent))[i] = answers[i]
        /\ Append(answers, Head(sent))[Len(answers) + 1] = Head(sent)
    BY <1>a, <2>1, Appended DEF ListenerTyped
  <2>3. Head(sent) <= received
    BY <1>a, <2>1 DEF ListenerTyped
  <2>4. ListenerTyped'
    <3>1. sent' = Tail(sent) /\ answers' = Append(answers, Head(sent))
          /\ UNCHANGED <<received, awaited, faults>>
      BY <1>3 DEF Add
    <3>2. \A i \in 1 .. Len(sent') : sent'[i] <= received'
      BY <1>a, <2>1, <3>1, LenProperties DEF ListenerTyped
    <3>3. \A i \in 1 .. Len(answers') : answers'[i] <= received'
      BY <1>a, <2>2, <2>3, <3>1, LenProperties DEF ListenerTyped
    <3> QED
      BY <1>a, <2>1, <2>2, <3>1, <3>2, <3>3 DEF ListenerTyped
  <2>5. WaitingTyped'
    <3>1. PICK new : /\ new = [m |-> Head(sent), made |-> 0, stalls |-> 0, again |-> Known(Head(sent)),
                               beside |-> FALSE, done |-> FALSE]
                     /\ waiting' = Append(waiting, new)
      BY <1>3 DEF Add
    <3>2. Known(Head(sent)) \in BOOLEAN
      BY DEF Known
    <3>3. new \in Job /\ new.made = 0 /\ new.m = Head(sent) /\ ~new.done
      BY <2>1, <3>1, <3>2, Numbers DEF Job
    <3>4. new.made < Attempts /\ new.m <= received
      BY <2>3, <3>3, Numbers
    <3>5. /\ waiting' \in Seq(Job) /\ Len(waiting') = Len(waiting) + 1
          /\ \A i \in 1 .. Len(waiting) : waiting'[i] = waiting[i]
          /\ waiting'[Len(waiting) + 1] = new
      BY <1>a, <3>1, <3>3, Appended DEF WaitingTyped
    <3>6. Len(waiting) \in Nat
      BY <1>a, LenProperties DEF WaitingTyped
    <3>7. received' = received
      BY <1>3 DEF Add
    <3> QED
      BY <1>a, <3>3, <3>4, <3>5, <3>6, <3>7 DEF WaitingTyped, Runs
  <2> QED
    BY <1>3, <2>4, <2>5, Untouched DEF Add, QueueTyped
<1>4. ASSUME Answer PROVE QueueTyped'
  <2>1. /\ Len(answers) >= 1
        /\ Tail(answers) \in Seq(Messages) /\ Len(Tail(answers)) = Len(answers) - 1
        /\ \A i \in 1 .. Len(answers) - 1 : Tail(answers)[i] = answers[i + 1]
    BY <1>4, <1>a, Taken DEF Answer, ListenerTyped
  <2>2. /\ answers' = Tail(answers) /\ awaited' \in {0, awaited}
        /\ UNCHANGED <<received, sent, faults>>
    BY <1>4 DEF Answer
  <2>3. \A i \in 1 .. Len(answers') : answers'[i] <= received'
    BY <1>a, <2>1, <2>2, LenProperties DEF ListenerTyped
  <2>4. ListenerTyped'
    BY <1>a, <2>1, <2>2, <2>3, Numbers DEF ListenerTyped
  <2> QED
    BY <1>4, <2>4, Untouched DEF Answer, QueueTyped, queueVars
<1>5. ASSUME ConnectionLost PROVE QueueTyped'
  <2>1. /\ answers \o sent \in Seq(Messages) /\ Len(answers \o sent) = Len(answers) + Len(sent)
        /\ \A i \in 1 .. Len(answers) + Len(sent) :
              (answers \o sent)[i] = IF i <= Len(answers) THEN answers[i] ELSE sent[i - Len(answers)]
    BY <1>a, ConcatProperties DEF ListenerTyped
  <2>2. sent' = answers \o sent /\ answers' = <<>> /\ UNCHANGED <<received, awaited>>
        /\ faults' \in 0 .. MaxFaults
    BY <1>5, <1>f DEF ConnectionLost
  <2>3. Len(answers) \in Nat /\ Len(sent) \in Nat
    BY <1>a, LenProperties DEF ListenerTyped
  <2>4. \A i \in 1 .. Len(sent') : sent'[i] <= received'
    BY <1>a, <2>1, <2>2, <2>3 DEF ListenerTyped
  <2>5. ListenerTyped'
    BY <1>a, <2>1, <2>2, <2>4 DEF ListenerTyped
  <2> QED
    BY <1>5, <2>5, Untouched DEF ConnectionLost, QueueTyped, queueVars
<1>6. ASSUME ListenerRestart PROVE QueueTyped'
  <2>1. /\ sent' = <<>> /\ answers' = <<>> /\ awaited' = 0 /\ received' = received
        /\ faults' \in 0 .. MaxFaults
    BY <1>6, <1>f DEF ListenerRestart
  <2>2. ListenerTyped'
    BY <1>a, <2>1, Numbers DEF ListenerTyped
  <2> QED
    BY <1>6, <2>2, Untouched DEF ListenerRestart, QueueTyped, queueVars
<1>7. ASSUME NEW s \in Slots, Take(s) PROVE QueueTyped'
  <2>1. PICK job : job = Head(waiting)
    OBVIOUS
  <2>2. /\ s \notin Busy /\ waiting # <<>> /\ waiting' = Tail(waiting)
        /\ active' = [t \in Slots |->
                        IF t = s THEN [job EXCEPT !.beside = \E u \in Busy : active[u].m > job.m]
                        ELSE IF t \in Busy THEN [active[t] EXCEPT !.beside = @ \/ job.m > active[t].m]
                        ELSE NoJob]
        /\ UNCHANGED <<listenerVars, delayed, lost, db, ended, faults>>
    BY <1>7, <2>1 DEF Take
  <2>3. /\ Len(waiting) >= 1 /\ job = waiting[1] /\ job \in Job
        /\ Tail(waiting) \in Seq(Job) /\ Len(Tail(waiting)) = Len(waiting) - 1
        /\ \A i \in 1 .. Len(waiting) - 1 : Tail(waiting)[i] = waiting[i + 1]
    BY <1>a, <2>1, <2>2, Taken DEF WaitingTyped
  <2>4. Len(waiting) \in Nat
    BY <1>a, LenProperties DEF WaitingTyped
  <2>5. received' = received
    BY <2>2 DEF listenerVars
  <2>6. WaitingTyped'
    BY <1>a, <2>2, <2>3, <2>4, <2>5 DEF WaitingTyped, Runs
  <2>7. Runs(job)
    BY <1>a, <2>3, <2>4 DEF WaitingTyped
  <2>9. ASSUME NEW t \in Slots
        PROVE  /\ active'[t] \in Job \cup {NoJob}
               /\ active'[t] # NoJob => /\ active'[t].made < Attempts /\ active'[t].m <= received'
                                        /\ active'[t].done => active'[t].m \in ended'
    <3>1. CASE t = s
      <4>1. PICK b \in BOOLEAN : active'[t] = [job EXCEPT !.beside = b]
        BY <2>2, <3>1
      <4>2. ~job.done
        BY <1>a, <2>3, <2>4 DEF WaitingTyped
      <4>3. /\ active'[t] \in Job /\ active'[t].m = job.m /\ active'[t].made = job.made
            /\ active'[t].done = job.done
        BY <2>3, <4>1, WithBeside DEF Alike
      <4> QED
        BY <2>2, <2>5, <2>7, <4>2, <4>3 DEF Runs
    <3>2. CASE t # s /\ t \in Busy
      <4>1. PICK b : b = (active[t].beside \/ job.m > active[t].m)
        OBVIOUS
      <4>2. b \in BOOLEAN
        BY <4>1
      <4>3. active'[t] = [active[t] EXCEPT !.beside = b]
        BY <2>2, <3>2, <4>1
      <4>4. active[t] \in Job /\ active[t].made < Attempts /\ active[t].m <= received
            /\ (active[t].done => active[t].m \in ended)
        BY <3>2, BusyJob
      <4>5. /\ active'[t] \in Job /\ active'[t].m = active[t].m /\ active'[t].made = active[t].made
            /\ active'[t].done = active[t].done
        BY <4>2, <4>3, <4>4, WithBeside DEF Alike
      <4> QED
        BY <2>2, <2>5, <4>4, <4>5 DEF Runs
    <3>3. CASE t # s /\ t \notin Busy
      BY <2>2, <3>3
    <3> QED
      BY <3>1, <3>2, <3>3
  <2>10. ActiveTyped'
    <3>1. active' \in [Slots -> Job \cup {NoJob}]
      BY <2>2, <2>9
    <3>2. \A t \in Busy' : t \in Slots /\ active'[t] # NoJob
      BY DEF Busy
    <3> QED
      BY <2>9, <3>1, <3>2 DEF ActiveTyped, Runs
  <2> QED
    BY <2>2, <2>6, <2>10, Untouched DEF QueueTyped, listenerVars
<1>8. ASSUME NEW s \in Slots, Commit(s) PROVE QueueTyped'
  <2>1. /\ s \in Busy /\ db' = active[s].m /\ ended' = ended \cup {active[s].m}
        /\ active' = [active EXCEPT ![s].done = TRUE]
        /\ UNCHANGED <<listenerVars, waiting, delayed, lost, faults, received>>
    BY <1>8 DEF Commit, listenerVars
  <2>2. /\ active[s] \in Job /\ active[s].made < Attempts
        /\ active[s].m \in Messages /\ active[s].m <= received
    BY <2>1, BusyJob
  <2>3. EndedTyped'
    BY <1>a, <2>1, <2>2 DEF EndedTyped, Messages, ListenerTyped
  <2>4. PICK new : new = [active[s] EXCEPT !.done = TRUE]
    OBVIOUS
  <2>5. new \in Job /\ new.made = active[s].made /\ new.m = active[s].m
    BY <2>2, <2>4, WithDone DEF Alike
  <2>6. active' = [active EXCEPT ![s] = new]
    BY <2>1, <2>4
  <2>7. ASSUME NEW t \in Slots
        PROVE  /\ active'[t] \in Job \cup {NoJob}
               /\ active'[t] # NoJob => /\ active'[t].made < Attempts /\ active'[t].m <= received'
                                        /\ active'[t].done => active'[t].m \in ended'
    <3>0. ended' = ended \cup {active[s].m} /\ received' = received
      BY <2>1
    <3>1. CASE t = s
      <4>1. active'[t] = new
        BY <1>a, <2>6, <3>1 DEF ActiveTyped
      <4> QED
        BY <2>2, <2>5, <3>0, <4>1 DEF Runs
    <3>2. CASE t # s
      <4>1. active'[t] = active[t]
        BY <1>a, <2>6, <3>2 DEF ActiveTyped
      <4>2. active[t] # NoJob => t \in Busy
        BY DEF Busy
      <4>3. active[t] # NoJob => /\ active[t].made < Attempts /\ active[t].m <= received'
                                 /\ active[t].done => active[t].m \in ended'
        BY <3>0, <4>2, BusyJob
      <4> QED
        BY <1>a, <4>1, <4>3 DEF ActiveTyped
    <3> QED
      BY <3>1, <3>2
  <2>8. ActiveTyped'
    <3>1. active' \in [Slots -> Job \cup {NoJob}]
      BY <1>a, <2>5, <2>6 DEF ActiveTyped
    <3>2. \A t \in Busy' : t \in Slots /\ active'[t] # NoJob
      BY DEF Busy
    <3> QED
      BY <2>7, <3>1, <3>2 DEF ActiveTyped, Runs
  <2> QED
    BY <2>1, <2>3, <2>8, Untouched DEF QueueTyped
<1>9. ASSUME NEW s \in Busy, active' = [active EXCEPT ![s] = NoJob], received' = received,
             ended \subseteq ended'
      PROVE  ActiveTyped'
  <2>1. s \in Slots
    BY DEF Busy
  <2>2. active' \in [Slots -> Job \cup {NoJob}]
    BY <1>a, <1>9 DEF ActiveTyped
  <2>3. \A t \in Busy' : t \in Busy /\ active'[t] = active[t]
    BY <1>a, <1>9, <2>1 DEF ActiveTyped, Busy
  <2> QED
    BY <1>a, <1>9, <2>2, <2>3 DEF ActiveTyped, Runs
<1>10. ASSUME NEW s \in Slots, Complete(s) PROVE QueueTyped'
  <2>1. ActiveTyped'
    BY <1>9, <1>10 DEF Complete, listenerVars
  <2> QED
    BY <1>10, <2>1, Untouched DEF Complete, QueueTyped, listenerVars
<1>11. ASSUME NEW s \in Slots, Fail(s) PROVE QueueTyped'
  <2>1. /\ s \in Busy /\ active' = [active EXCEPT ![s] = NoJob]
        /\ UNCHANGED <<listenerVars, waiting, lost, db, faults, received>>
    BY <1>11 DEF Fail, listenerVars
  <2>2. /\ active[s] \in Job /\ active[s].made < Attempts
        /\ active[s].m \in Messages /\ active[s].m <= received
    BY <2>1, BusyJob
  <2>2a. active[s].m \in 1 .. received
    BY <1>a, <2>2, Numbers DEF Messages, ListenerTyped
  <2>3. CASE active[s].made + 1 < Attempts
    <3>1. PICK new : /\ new = [Again(active[s]) EXCEPT !.made = @ + 1]
                     /\ delayed' = delayed \cup {new}
      BY <1>11, <2>3 DEF Fail
    <3>2. PICK old : old = Again(active[s])
      OBVIOUS
    <3>2a. old \in Job /\ old.made = active[s].made /\ old.m = active[s].m /\ ~old.done
      BY <2>2, <3>2, Afresh DEF Alike
    <3>3. active[s].made \in Nat /\ active[s].made + 1 \in 0 .. Attempts
      BY <2>2, <2>3, JobFields, Numbers
    <3>4. new \in Job /\ new.m = active[s].m /\ new.made = active[s].made + 1 /\ ~new.done
      BY <3>1, <3>2, <3>2a, <3>3, WithMade
    <3>4a. new.made > 0 /\ new.made < Attempts /\ new.m <= received
      BY <2>2, <2>3, <3>3, <3>4, Numbers
    <3>5. DelayedTyped'
      BY <1>a, <2>1, <3>1, <3>4, <3>4a DEF DelayedTyped, Runs
    <3>6. ended' = ended
      BY <1>11, <2>3 DEF Fail
    <3> QED
      BY <1>9, <2>1, <3>5, <3>6, Untouched DEF QueueTyped
  <2>4. CASE ~(active[s].made + 1 < Attempts)
    <3>1. ended' = ended \cup {active[s].m} /\ delayed' = delayed
      BY <1>11, <2>4 DEF Fail
    <3>2. EndedTyped'
      BY <1>a, <2>1, <2>2a, <3>1 DEF EndedTyped
    <3> QED
      BY <1>9, <2>1, <3>1, <3>2, Untouched DEF QueueTyped
  <2> QED
    BY <2>3, <2>4
<1>12. ASSUME NEW s \in Slots, Stall(s) PROVE QueueTyped'
  <2>1. /\ s \in Busy /\ active' = [active EXCEPT ![s] = NoJob]
        /\ UNCHANGED <<listenerVars, delayed, db, faults, received>>
    BY <1>12 DEF Stall, listenerVars
  <2>2. /\ active[s] \in Job /\ active[s].made < Attempts
        /\ active[s].m \in Messages /\ active[s].m <= received
    BY <2>1, BusyJob
  <2>2a. active[s].m \in 1 .. received
    BY <1>a, <2>2, Numbers DEF Messages, ListenerTyped
  <2>2b. LostTyped'
    <3>1. lost' = lost \/ lost' = [lost EXCEPT ![s] = active[s].m]
      BY <1>12 DEF Stall
    <3>2. active[s].m \in 0 .. MaxMessages
      BY <2>2, Numbers DEF Messages
    <3> QED
      BY <1>a, <2>1, <2>2, <3>1, <3>2 DEF LostTyped
  <2>3. CASE active[s].stalls < MaxStalls
    <3>1. PICK new : /\ new = [Again(active[s]) EXCEPT !.stalls = @ + 1]
                     /\ waiting' = <<new>> \o waiting
      BY <1>12, <2>3 DEF Stall
    <3>2. PICK old : old = Again(active[s])
      OBVIOUS
    <3>2a. /\ old \in Job /\ old.made = active[s].made /\ old.m = active[s].m /\ ~old.done
           /\ old.stalls = active[s].stalls
      BY <2>2, <3>2, Afresh DEF Alike
    <3>3. active[s].stalls + 1 \in 0 .. MaxStalls
      BY <2>2, <2>3, JobFields, Numbers
    <3>4. new \in Job /\ new.m = active[s].m /\ new.made = active[s].made /\ ~new.done
      BY <3>1, <3>2, <3>2a, <3>3, WithStalls
    <3>5. /\ waiting' \in Seq(Job) /\ Len(waiting') = Len(waiting) + 1
          /\ waiting'[1] = new
          /\ \A i \in 2 .. Len(waiting) + 1 : waiting'[i] = waiting[i - 1]
      BY <1>a, <3>1, <3>4, PutFirst DEF WaitingTyped
    <3>6. Len(waiting) \in Nat
      BY <1>a, LenProperties DEF WaitingTyped
    <3>7. WaitingTyped'
      <4>0. received' = received
        BY <2>1
      <4>1. new \in Job /\ new.made < Attempts /\ new.m <= received /\ ~new.done
        BY <2>2, <3>4
      <4>2. ASSUME NEW i \in 1 .. Len(waiting')
            PROVE  /\ waiting'[i] \in Job /\ waiting'[i].made < Attempts
                   /\ waiting'[i].m <= received /\ ~waiting'[i].done
        <5>1. CASE i = 1
          BY <3>5, <4>1, <5>1
        <5>2. CASE i # 1
          <6>1. i \in 2 .. Len(waiting) + 1 /\ i - 1 \in 1 .. Len(waiting)
            BY <3>5, <3>6, <5>2
          <6>2. waiting'[i] = waiting[i - 1]
            BY <3>5, <6>1
          <6> QED
            BY <1>a, <6>1, <6>2 DEF WaitingTyped, Runs
        <5> QED
          BY <5>1, <5>2
      <4> QED
        BY <3>5, <4>0, <4>2 DEF WaitingTyped, Runs
    <3>8. ended' = ended
      BY <1>12, <2>3 DEF Stall
    <3> QED
      BY <1>9, <2>1, <2>2b, <3>7, <3>8, Untouched DEF QueueTyped
  <2>4. CASE ~(active[s].stalls < MaxStalls)
    <3>1. ended' = ended \cup {active[s].m} /\ waiting' = waiting
      BY <1>12, <2>4 DEF Stall
    <3>2. EndedTyped'
      BY <1>a, <2>1, <2>2a, <3>1 DEF EndedTyped
    <3> QED
      BY <1>9, <2>1, <2>2b, <3>1, <3>2, Untouched DEF QueueTyped
  <2> QED
    BY <2>3, <2>4
<1>13. ASSUME NEW job \in delayed, Promote(job) PROVE QueueTyped'
  <2>1. /\ delayed' = delayed \ {job} /\ waiting' = Append(waiting, job)
        /\ UNCHANGED <<listenerVars, active, lost, db, ended, faults, received>>
    BY <1>13 DEF Promote, listenerVars
  <2>2. Runs(job) /\ ~job.done /\ job \in Job
    BY <1>a DEF DelayedTyped, Runs
  <2>3. /\ waiting' \in Seq(Job) /\ Len(waiting') = Len(waiting) + 1
        /\ \A i \in 1 .. Len(waiting) : waiting'[i] = waiting[i]
        /\ waiting'[Len(waiting) + 1] = job
    BY <1>a, <2>1, <2>2, Appended DEF WaitingTyped
  <2>4. Len(waiting) \in Nat
    BY <1>a, LenProperties DEF WaitingTyped
  <2>5. WaitingTyped'
    BY <1>a, <2>1, <2>2, <2>3, <2>4 DEF WaitingTyped, Runs
  <2>6. DelayedTyped'
    BY <1>a, <2>1 DEF DelayedTyped, Runs
  <2> QED
    BY <2>1, <2>5, <2>6, Untouched DEF QueueTyped
<1>14. ASSUME UNCHANGED vars PROVE QueueTyped'
  BY <1>14, Untouched DEF vars, QueueTyped, listenerVars, queueVars
<1>15. ASSUME NEW s \in Slots, LateCommit(s) PROVE QueueTyped'
  <2>1. /\ lost[s] # 0 /\ db' = lost[s] /\ ended' = ended \cup {lost[s]}
        /\ lost' = [lost EXCEPT ![s] = 0]
        /\ UNCHANGED <<listenerVars, waiting, delayed, active, faults, received>>
    BY <1>15 DEF LateCommit, listenerVars
  <2>2. lost[s] \in 1 .. received
    BY <1>a, <2>1, Numbers DEF LostTyped, ListenerTyped
  <2>3. EndedTyped'
    BY <1>a, <2>1, <2>2 DEF EndedTyped
  <2>4. LostTyped'
    BY <1>a, <2>1, Numbers DEF LostTyped, ListenerTyped
  <2>5. ActiveTyped'
    BY <1>a, <2>1 DEF ActiveTyped, Busy, Runs
  <2> QED
    BY <2>1, <2>3, <2>4, <2>5, Untouched DEF QueueTyped
<1>16. ASSUME NEW s \in Slots, LateFail(s) PROVE QueueTyped'
  <2>1. /\ lost' = [lost EXCEPT ![s] = 0]
        /\ UNCHANGED <<listenerVars, waiting, delayed, active, db, ended, faults, received>>
    BY <1>16 DEF LateFail, listenerVars
  <2>2. LostTyped'
    BY <1>a, <2>1, Numbers DEF LostTyped, ListenerTyped
  <2> QED
    BY <2>1, <2>2, Untouched DEF QueueTyped
<1> QED
  BY <1>1, <1>2, <1>3, <1>4, <1>5, <1>6, <1>7, <1>8, <1>10, <1>11, <1>12, <1>13, <1>14, <1>15,
     <1>16 DEF Next

\* The queue's state is well typed for any bounds: no job runs more often than
\* Attempts, no message is applied that the listener has not received.
THEOREM TypeCorrect == Spec => []TypeOK
<1>1. Spec => []QueueTyped
  BY TypeInit, TypeStep, PTL DEF Spec
<1> QED
  BY <1>1, QueueTypedGivesType, PTL

-----------------------------------------------------------------------------
(* Where the messages are.                                                 *)

Waits(n) == \E i \in 1 .. Len(waiting) : waiting[i].m = n
Processed(n) == \E s \in Busy : active[s].m = n

LEMMA KnownParts ==
    ASSUME QueueTyped
    PROVE  \A n \in Messages : Known(n) <=> Off(n) \/ Waits(n)
<1>1. DOMAIN waiting = 1 .. Len(waiting)
  BY LenProperties DEF QueueTyped, WaitingTyped
<1> QED
  BY <1>1 DEF Known, Off, Waits

LEMMA KnownReceived ==
    ASSUME QueueTyped
    PROVE  \A n \in Messages : Known(n) => n <= received
<1>1. ASSUME NEW n \in Messages, Off(n) PROVE n <= received
  <2>1. n \in ended => n <= received
    BY DEF QueueTyped, EndedTyped, Messages, ListenerTyped
  <2>2. (\E j \in delayed : j.m = n) => n <= received
    BY DEF QueueTyped, DelayedTyped, Runs
  <2>3. (\E s \in Busy : active[s].m = n) => n <= received
    BY BusyJob
  <2> QED
    BY <1>1, <2>1, <2>2, <2>3 DEF Off
<1>2. ASSUME NEW n \in Messages, Waits(n) PROVE n <= received
  BY <1>2 DEF Waits, QueueTyped, WaitingTyped, Runs
<1> QED
  BY <1>1, <1>2, KnownParts

\* A job leaves its slot.
LEMMA SlotLeft ==
    ASSUME QueueTyped, NEW s \in Busy, active' = [active EXCEPT ![s] = NoJob]
    PROVE  /\ Busy' = Busy \ {s}
           /\ \A t \in Busy' : active'[t] = active[t]
           /\ \A n \in Messages : Processed(n) <=> Processed(n)' \/ n = active[s].m
<1>1. s \in Slots /\ active \in [Slots -> Job \cup {NoJob}]
  BY DEF Busy, QueueTyped, ActiveTyped
<1>2. \A t \in Slots : active'[t] = IF t = s THEN NoJob ELSE active[t]
  BY <1>1
<1>3. Busy' = Busy \ {s}
  BY <1>2 DEF Busy
<1>4. \A t \in Busy' : active'[t] = active[t]
  BY <1>2, <1>3 DEF Busy
<1>5. ASSUME NEW n \in Messages PROVE Processed(n) <=> Processed(n)' \/ n = active[s].m
  BY <1>3, <1>4 DEF Processed
<1> QED
  BY <1>3, <1>4, <1>5

\* What a job that is taken does to the slots.
LEMMA SlotTaken ==
    ASSUME QueueTyped, NEW s \in Slots, Take(s)
    PROVE  /\ Len(waiting) \in Nat /\ Len(waiting) >= 1
           /\ waiting[1] \in Job
           /\ Len(waiting') = Len(waiting) - 1
           /\ \A i \in 1 .. Len(waiting) - 1 : waiting'[i] = waiting[i + 1]
           /\ s \notin Busy /\ Busy' = Busy \cup {s}
           /\ Alike(active'[s], waiting[1])
           /\ \A t \in Busy : /\ Alike(active'[t], active[t])
                              /\ ~active'[t].beside => ~active[t].beside /\ waiting[1].m <= active[t].m
<1>0. ActiveTyped /\ WaitingTyped
  BY DEF QueueTyped
<1>1. PICK job : job = Head(waiting)
  OBVIOUS
<1>2. /\ s \notin Busy /\ waiting # <<>> /\ waiting' = Tail(waiting)
      /\ active' = [t \in Slots |->
                      IF t = s THEN [job EXCEPT !.beside = \E u \in Busy : active[u].m > job.m]
                      ELSE IF t \in Busy THEN [active[t] EXCEPT !.beside = @ \/ job.m > active[t].m]
                      ELSE NoJob]
  BY <1>1 DEF Take
<1>3. /\ Len(waiting) >= 1 /\ job = waiting[1] /\ job \in Job
      /\ Len(Tail(waiting)) = Len(waiting) - 1
      /\ \A i \in 1 .. Len(waiting) - 1 : Tail(waiting)[i] = waiting[i + 1]
  BY <1>0, <1>1, <1>2, Taken DEF WaitingTyped
<1>4. Len(waiting) \in Nat
  BY <1>0, LenProperties DEF WaitingTyped
<1>5. active'[s] \in Job /\ Alike(active'[s], job)
  <2>1. PICK b \in BOOLEAN : active'[s] = [job EXCEPT !.beside = b]
    BY <1>2
  <2> QED
    BY <1>3, <2>1, WithBeside
<1>6. ASSUME NEW t \in Busy
      PROVE  /\ active'[t] \in Job /\ Alike(active'[t], active[t])
             /\ ~active'[t].beside => ~active[t].beside /\ job.m <= active[t].m
  <2>1. t \in Slots /\ t # s /\ active[t] \in Job
    BY <1>2, BusyJob
  <2>2. PICK b : b = (active[t].beside \/ job.m > active[t].m)
    OBVIOUS
  <2>3. b \in BOOLEAN
    BY <2>2
  <2>4. active'[t] = [active[t] EXCEPT !.beside = b]
    BY <1>2, <2>1, <2>2
  <2>5. active'[t] \in Job /\ Alike(active'[t], active[t]) /\ active'[t].beside = b
    BY <2>1, <2>3, <2>4, WithBeside
  <2>6. job.m \in Messages /\ active[t].m \in Messages
    BY <1>3, <2>1, JobFields
  <2>7. ~b => ~active[t].beside /\ ~(job.m > active[t].m)
    BY <2>2
  <2>8. ~(job.m > active[t].m) => job.m <= active[t].m
    BY <2>6 DEF Messages
  <2> QED
    BY <2>5, <2>7, <2>8
<1>7. \A t \in Slots \ (Busy \cup {s}) : active'[t] = NoJob
  BY <1>2
<1>8. Busy' = Busy \cup {s}
  <2>1. \A t \in Busy \cup {s} : t \in Slots /\ active'[t] \in Job
    BY <1>5, <1>6 DEF Busy
  <2>2. \A t \in Busy \cup {s} : active'[t] # NoJob
    BY <2>1, JobFields
  <2> QED
    BY <1>7, <2>1, <2>2 DEF Busy
<1> QED
  BY <1>2, <1>3, <1>4, <1>5, <1>6, <1>8

\* What an add does.
LEMMA Added ==
    ASSUME QueueTyped, Add
    PROVE  /\ Len(sent) \in Nat /\ Len(sent) >= 1 /\ sent[1] \in Messages
           /\ Len(sent') = Len(sent) - 1
           /\ \A i \in 1 .. Len(sent) - 1 : sent'[i] = sent[i + 1]
           /\ Len(answers) \in Nat /\ Len(answers') = Len(answers) + 1
           /\ \A i \in 1 .. Len(answers) : answers'[i] = answers[i]
           /\ answers'[Len(answers) + 1] = sent[1]
           /\ Len(waiting) \in Nat /\ Len(waiting') = Len(waiting) + 1
           /\ \A i \in 1 .. Len(waiting) : waiting'[i] = waiting[i]
           /\ waiting'[Len(waiting) + 1].m = sent[1]
           /\ Fresh(waiting'[Len(waiting) + 1]) => ~Known(sent[1])
           /\ UNCHANGED <<received, delayed, active, lost, db, ended>> /\ Busy' = Busy
<1>a. WaitingTyped /\ ListenerTyped
  BY DEF QueueTyped
<1>1. /\ Len(sent) >= 1 /\ Head(sent) = sent[1] /\ sent[1] \in Messages
      /\ Len(Tail(sent)) = Len(sent) - 1
      /\ \A i \in 1 .. Len(sent) - 1 : Tail(sent)[i] = sent[i + 1]
  BY <1>a, Taken DEF Add, ListenerTyped
<1>2. /\ Len(Append(answers, sent[1])) = Len(answers) + 1
      /\ \A i \in 1 .. Len(answers) : Append(answers, sent[1])[i] = answers[i]
      /\ Append(answers, sent[1])[Len(answers) + 1] = sent[1]
  BY <1>a, <1>1, Appended DEF ListenerTyped
<1>3. Len(sent) \in Nat /\ Len(answers) \in Nat /\ Len(waiting) \in Nat
  BY <1>a, LenProperties DEF ListenerTyped, WaitingTyped
<1>4. PICK new : /\ new = [m |-> Head(sent), made |-> 0, stalls |-> 0, again |-> Known(Head(sent)),
                           beside |-> FALSE, done |-> FALSE]
                 /\ waiting' = Append(waiting, new)
  BY DEF Add
<1>5. Known(sent[1]) \in BOOLEAN
  BY DEF Known
<1>6. new \in Job /\ new.m = sent[1] /\ new.again = Known(sent[1])
  BY <1>1, <1>4, <1>5, Numbers DEF Job
<1>7. /\ Len(waiting') = Len(waiting) + 1
      /\ \A i \in 1 .. Len(waiting) : waiting'[i] = waiting[i]
      /\ waiting'[Len(waiting) + 1] = new
  BY <1>a, <1>4, <1>6, Appended DEF WaitingTyped
<1>8. Fresh(new) => ~Known(sent[1])
  BY <1>6 DEF Fresh
<1>9. sent' = Tail(sent) /\ answers' = Append(answers, sent[1])
      /\ UNCHANGED <<received, delayed, active, lost, db, ended>>
  BY <1>1 DEF Add
<1>10. Busy' = Busy
  BY <1>9 DEF Busy
<1> QED
  BY <1>1, <1>2, <1>3, <1>6, <1>7, <1>8, <1>9, <1>10

LEMMA AddKnown ==
    ASSUME QueueTyped, QueueTyped', Add, NEW m, m = sent[1]
    PROVE  Known(m)'
<1>1. DOMAIN waiting' = 1 .. Len(waiting')
  BY LenProperties DEF QueueTyped, WaitingTyped
<1>2. Len(waiting) + 1 \in DOMAIN waiting' /\ waiting'[Len(waiting) + 1].m = m
  BY <1>1, Added
<1> QED
  BY <1>2 DEF Known

\* What a stalled job does.
LEMMA Stalled ==
    ASSUME QueueTyped, NEW s \in Slots, Stall(s)
    PROVE  /\ s \in Busy /\ active[s].m \in Messages /\ Len(waiting) \in Nat
           /\ active' = [active EXCEPT ![s] = NoJob] /\ delayed' = delayed
           /\ lost' \in {lost, [lost EXCEPT ![s] = active[s].m]}
           /\ \/ waiting' = waiting /\ ended' = ended \cup {active[s].m}
              \/ /\ ended' = ended /\ Len(waiting') = Len(waiting) + 1
                 /\ waiting'[1].m = active[s].m /\ ~Fresh(waiting'[1])
                 /\ \A i \in 2 .. Len(waiting) + 1 : waiting'[i] = waiting[i - 1]
<1>a. WaitingTyped
  BY DEF QueueTyped
<1>1. /\ s \in Busy /\ active[s] \in Job /\ active[s].m \in Messages
      /\ active' = [active EXCEPT ![s] = NoJob] /\ delayed' = delayed
      /\ lost' \in {lost, [lost EXCEPT ![s] = active[s].m]}
  BY BusyJob DEF Stall
<1>2. Len(waiting) \in Nat
  BY <1>a, LenProperties DEF WaitingTyped
<1>3. CASE active[s].stalls < MaxStalls
  <2>1. PICK new : /\ new = [Again(active[s]) EXCEPT !.stalls = @ + 1]
                   /\ waiting' = <<new>> \o waiting
    BY <1>3 DEF Stall
  <2>2. PICK old : old = Again(active[s])
    OBVIOUS
  <2>3. old \in Job /\ old.m = active[s].m /\ old.stalls = active[s].stalls
    BY <1>1, <2>2, Afresh DEF Alike
  <2>4. active[s].stalls \in Nat /\ active[s].stalls + 1 \in 0 .. MaxStalls
    BY <1>1, <1>3, JobFields, Numbers
  <2>5. new \in Job /\ new.m = active[s].m /\ new.stalls = active[s].stalls + 1
    BY <2>1, <2>2, <2>3, <2>4, WithStalls
  <2>6. /\ Len(waiting') = Len(waiting) + 1 /\ waiting'[1] = new
        /\ \A i \in 2 .. Len(waiting) + 1 : waiting'[i] = waiting[i - 1]
    BY <1>a, <2>1, <2>5, PutFirst DEF WaitingTyped
  <2>7. ~Fresh(new)
    BY <2>4, <2>5 DEF Fresh
  <2>8. ended' = ended
    BY <1>3 DEF Stall
  <2> QED
    BY <1>1, <1>2, <2>5, <2>6, <2>7, <2>8
<1>4. CASE ~(active[s].stalls < MaxStalls)
  BY <1>1, <1>2, <1>4 DEF Stall
<1> QED
  BY <1>3, <1>4

\* What a failed job does.
LEMMA Failed ==
    ASSUME QueueTyped, NEW s \in Slots, Fail(s)
    PROVE  /\ s \in Busy /\ active[s].m \in Messages
           /\ active' = [active EXCEPT ![s] = NoJob] /\ waiting' = waiting
           /\ \/ delayed' = delayed /\ ended' = ended \cup {active[s].m}
              \/ ended' = ended /\ \E new : new.m = active[s].m /\ delayed' = delayed \cup {new}
<1>1. /\ s \in Busy /\ active[s] \in Job /\ active[s].m \in Messages
      /\ active' = [active EXCEPT ![s] = NoJob] /\ waiting' = waiting
  BY BusyJob DEF Fail
<1>2. CASE active[s].made + 1 < Attempts
  <2>1. PICK new : /\ new = [Again(active[s]) EXCEPT !.made = @ + 1]
                   /\ delayed' = delayed \cup {new} /\ ended' = ended
    BY <1>2 DEF Fail
  <2>2. PICK old : old = Again(active[s])
    OBVIOUS
  <2>3. old \in Job /\ old.m = active[s].m /\ old.made = active[s].made
    BY <1>1, <2>2, Afresh DEF Alike
  <2>4. active[s].made + 1 \in 0 .. Attempts
    BY <1>1, <1>2, JobFields, Numbers
  <2>5. new.m = active[s].m
    BY <2>1, <2>2, <2>3, <2>4, WithMade
  <2> QED
    BY <1>1, <2>1, <2>5
<1>3. CASE ~(active[s].made + 1 < Attempts)
  BY <1>1, <1>3 DEF Fail
<1> QED
  BY <1>2, <1>3

\* A step other than Add makes no message known, and no step forgets one; only
\* a job that is taken leaves the waiting list.
LEMMA WhereTheyGo ==
    ASSUME QueueTyped, QueueTyped', LateKnown, [Next]_vars, NEW n \in Messages
    PROVE  /\ Known(n) => Known(n)'
           /\ Known(n)' => Known(n) \/ (Add /\ n = sent[1])
           /\ Off(n)' => Gone(n) \/ (Len(waiting') < Len(waiting) /\ n = waiting[1].m)
<1>k. (Known(n) <=> Off(n) \/ Waits(n)) /\ (Known(n)' <=> Off(n)' \/ Waits(n)')
  <2>1. Known(n) <=> Off(n) \/ Waits(n)
    BY KnownParts
  <2>2. DOMAIN waiting' = 1 .. Len(waiting')
    BY LenProperties DEF QueueTyped, WaitingTyped
  <2>3. Known(n)' <=> Off(n)' \/ Waits(n)'
    BY <2>2 DEF Known, Off, Waits
  <2> QED
    BY <2>1, <2>3
<1>g. /\ Off(n) <=> n \in ended \/ (\E j \in delayed : j.m = n) \/ Processed(n)
      /\ Off(n)' <=> n \in ended' \/ (\E j \in delayed' : j.m = n) \/ Processed(n)'
  BY DEF Off, Processed
<1>1. CASE Receive \/ AddTimesOut \/ Answer \/ ConnectionLost \/ ListenerRestart \/ UNCHANGED vars
  <2>1. UNCHANGED <<waiting, delayed, active, ended>>
    BY <1>1 DEF Receive, AddTimesOut, Answer, ConnectionLost, ListenerRestart, vars, queueVars
  <2>2. Busy' = Busy
    BY <2>1 DEF Busy
  <2>3. (Processed(n)' <=> Processed(n)) /\ (Waits(n)' <=> Waits(n))
    BY <2>1, <2>2 DEF Processed, Waits
  <2> QED
    BY <1>g, <1>k, <2>1, <2>3 DEF Gone
<1>2. CASE Add
  <2>1. Off(n)' <=> Off(n)
    BY <1>2, <1>g, Added DEF Processed
  <2>2. /\ Waits(n) => Waits(n)'
        /\ Waits(n)' => Waits(n) \/ n = sent[1]
    BY <1>2, Added DEF Waits
  <2> QED
    BY <1>2, <1>k, <2>1, <2>2 DEF Gone
<1>3. ASSUME NEW s \in Slots, Take(s)
      PROVE  /\ Known(n) <=> Known(n)'
             /\ Off(n)' => Off(n) \/ (Len(waiting') < Len(waiting) /\ n = waiting[1].m)
  <2>0. Len(waiting') < Len(waiting)
    BY <1>3, SlotTaken
  <2>1. Processed(n)' <=> Processed(n) \/ n = waiting[1].m
    BY <1>3, SlotTaken DEF Processed, Alike
  <2>2. Waits(n) <=> Waits(n)' \/ n = waiting[1].m
    <3>1. /\ Len(waiting) \in Nat /\ Len(waiting) >= 1
          /\ Len(waiting') = Len(waiting) - 1
          /\ \A i \in 1 .. Len(waiting) - 1 : waiting'[i] = waiting[i + 1]
      BY <1>3, SlotTaken
    <3>2. ASSUME NEW i \in 1 .. Len(waiting), waiting[i].m = n PROVE Waits(n)' \/ n = waiting[1].m
      <4>1. CASE i = 1
        BY <3>2, <4>1
      <4>2. CASE i # 1
        <5>1. i - 1 \in 1 .. Len(waiting') /\ waiting'[i - 1] = waiting[i]
          BY <3>1, <4>2
        <5> QED
          BY <3>2, <5>1 DEF Waits
      <4> QED
        BY <4>1, <4>2
    <3>3. ASSUME NEW i \in 1 .. Len(waiting'), waiting'[i].m = n PROVE Waits(n)
      <4>1. i + 1 \in 1 .. Len(waiting) /\ waiting'[i] = waiting[i + 1]
        BY <3>1
      <4> QED
        BY <3>3, <4>1 DEF Waits
    <3>4. n = waiting[1].m => Waits(n)
      BY <3>1 DEF Waits
    <3> QED
      BY <3>2, <3>3, <3>4 DEF Waits
  <2>3. UNCHANGED <<delayed, ended>>
    BY <1>3 DEF Take
  <2> QED
    BY <1>g, <1>k, <2>0, <2>1, <2>2, <2>3
<1>4. ASSUME NEW s \in Slots, Commit(s) PROVE (Known(n) <=> Known(n)') /\ (Off(n)' => Off(n))
  <2>1. /\ s \in Busy /\ ended' = ended \cup {active[s].m}
        /\ active' = [active EXCEPT ![s].done = TRUE] /\ UNCHANGED <<waiting, delayed>>
    BY <1>4 DEF Commit
  <2>2. active[s] \in Job /\ active \in [Slots -> Job \cup {NoJob}]
    BY <2>1, BusyJob DEF QueueTyped, ActiveTyped
  <2>3. PICK new : new = [active[s] EXCEPT !.done = TRUE]
    OBVIOUS
  <2>4. new \in Job /\ new.m = active[s].m
    BY <2>2, <2>3, WithDone DEF Alike
  <2>5. \A t \in Slots : active'[t] = IF t = s THEN new ELSE active[t]
    BY <2>1, <2>2, <2>3
  <2>6. Busy' = Busy
    BY <2>1, <2>4, <2>5, JobFields DEF Busy
  <2>7. Processed(n)' <=> Processed(n)
    BY <2>1, <2>4, <2>5, <2>6 DEF Processed, Busy
  <2>8. n = active[s].m => Processed(n)
    BY <2>1 DEF Processed
  <2>9. Waits(n)' <=> Waits(n)
    BY <2>1 DEF Waits
  <2> QED
    BY <1>g, <1>k, <2>1, <2>7, <2>8, <2>9
<1>5. ASSUME NEW s \in Slots, Complete(s) PROVE (Known(n) <=> Known(n)') /\ (Off(n)' => Off(n))
  <2>1. /\ s \in Busy /\ active[s].m \in ended
        /\ active' = [active EXCEPT ![s] = NoJob] /\ UNCHANGED <<waiting, delayed, ended>>
    BY <1>5, BusyJob DEF Complete
  <2>2. Processed(n) <=> Processed(n)' \/ n = active[s].m
    BY <2>1, SlotLeft
  <2>3. Waits(n)' <=> Waits(n)
    BY <2>1 DEF Waits
  <2> QED
    BY <1>g, <1>k, <2>1, <2>2, <2>3
<1>6. ASSUME NEW s \in Slots, Fail(s) PROVE (Known(n) <=> Known(n)') /\ (Off(n)' => Off(n))
  <2>1. /\ s \in Busy
        /\ active' = [active EXCEPT ![s] = NoJob] /\ waiting' = waiting
        /\ \/ delayed' = delayed /\ ended' = ended \cup {active[s].m}
           \/ ended' = ended /\ \E new : new.m = active[s].m /\ delayed' = delayed \cup {new}
    BY <1>6, Failed
  <2>2. Processed(n) <=> Processed(n)' \/ n = active[s].m
    BY <2>1, SlotLeft
  <2>3. Waits(n)' <=> Waits(n)
    BY <2>1 DEF Waits
  <2>4. (n \in ended' \/ \E j \in delayed' : j.m = n)
           <=> (n \in ended \/ (\E j \in delayed : j.m = n) \/ n = active[s].m)
    BY <2>1
  <2> QED
    BY <1>g, <1>k, <2>2, <2>3, <2>4
<1>7. ASSUME NEW s \in Slots, Stall(s) PROVE (Known(n) <=> Known(n)') /\ (Off(n)' => Off(n))
  <2>1. /\ s \in Busy /\ Len(waiting) \in Nat
        /\ active' = [active EXCEPT ![s] = NoJob] /\ delayed' = delayed
        /\ \/ waiting' = waiting /\ ended' = ended \cup {active[s].m}
           \/ /\ ended' = ended /\ Len(waiting') = Len(waiting) + 1
              /\ waiting'[1].m = active[s].m
              /\ \A i \in 2 .. Len(waiting) + 1 : waiting'[i] = waiting[i - 1]
    BY <1>7, Stalled
  <2>2. Processed(n) <=> Processed(n)' \/ n = active[s].m
    BY <2>1, SlotLeft
  <2>3. CASE waiting' = waiting /\ ended' = ended \cup {active[s].m}
    <3>1. Waits(n)' <=> Waits(n)
      BY <2>3 DEF Waits
    <3> QED
      BY <1>g, <1>k, <2>1, <2>2, <2>3, <3>1
  <2>4. CASE /\ ended' = ended /\ Len(waiting') = Len(waiting) + 1
             /\ waiting'[1].m = active[s].m
             /\ \A i \in 2 .. Len(waiting) + 1 : waiting'[i] = waiting[i - 1]
    <3>1. ASSUME NEW i \in 1 .. Len(waiting), waiting[i].m = n PROVE Waits(n)'
      <4>1. i + 1 \in 2 .. Len(waiting) + 1 /\ i + 1 \in 1 .. Len(waiting') /\ (i + 1) - 1 = i
        BY <2>1, <2>4
      <4>2. waiting'[i + 1] = waiting[i]
        BY <2>4, <4>1
      <4> QED
        BY <3>1, <4>1, <4>2 DEF Waits
    <3>2. ASSUME NEW i \in 1 .. Len(waiting'), waiting'[i].m = n PROVE Waits(n) \/ n = active[s].m
      <4>1. CASE i = 1
        BY <2>4, <3>2, <4>1
      <4>2. CASE i # 1
        <5>1. i \in 2 .. Len(waiting) + 1 /\ i - 1 \in 1 .. Len(waiting)
          BY <2>1, <2>4, <4>2
        <5> QED
          BY <2>4, <3>2, <5>1 DEF Waits
      <4> QED
        BY <4>1, <4>2
    <3>3. n = active[s].m => Waits(n)'
      <4>1. 1 \in 1 .. Len(waiting')
        BY <2>1, <2>4
      <4> QED
        BY <2>4, <4>1 DEF Waits
    <3>4. Waits(n)' <=> Waits(n) \/ n = active[s].m
      BY <3>1, <3>2, <3>3 DEF Waits
    <3> QED
      BY <1>g, <1>k, <2>1, <2>2, <2>4, <3>4
  <2> QED
    BY <2>1, <2>3, <2>4
<1>8. ASSUME NEW job \in delayed, Promote(job)
      PROVE (Known(n) <=> Known(n)') /\ (Off(n)' => Off(n))
  <2>1. /\ delayed' = delayed \ {job} /\ waiting' = Append(waiting, job) /\ job \in Job
        /\ UNCHANGED <<active, ended>>
    BY <1>8 DEF Promote, QueueTyped, DelayedTyped, Runs
  <2>2. /\ Len(waiting') = Len(waiting) + 1
        /\ \A i \in 1 .. Len(waiting) : waiting'[i] = waiting[i]
        /\ waiting'[Len(waiting) + 1] = job
    BY <2>1, Appended DEF QueueTyped, WaitingTyped
  <2>3. Len(waiting) \in Nat
    BY LenProperties DEF QueueTyped, WaitingTyped
  <2>4. Waits(n)' <=> Waits(n) \/ n = job.m
    BY <2>2, <2>3 DEF Waits
  <2>5. Busy' = Busy
    BY <2>1 DEF Busy
  <2>6. Processed(n)' <=> Processed(n)
    BY <2>1, <2>5 DEF Processed
  <2> QED
    BY <1>g, <1>k, <2>1, <2>4, <2>6
<1>9. ASSUME NEW s \in Slots, LateCommit(s) \/ LateFail(s)
      PROVE (Known(n) <=> Known(n)') /\ (Off(n)' => Off(n) \/ Late(n))
  <2>1. /\ UNCHANGED <<waiting, delayed, active>>
        /\ ended' = ended \/ ended' = ended \cup {lost[s]}
    BY <1>9 DEF LateCommit, LateFail
  <2>2. Busy' = Busy
    BY <2>1 DEF Busy
  <2>3. (Processed(n)' <=> Processed(n)) /\ (Waits(n)' <=> Waits(n))
    BY <2>1, <2>2 DEF Processed, Waits
  <2>4. n = lost[s] => Late(n) /\ Known(n)
    BY DEF Late, LateKnown
  <2> QED
    BY <1>g, <1>k, <2>1, <2>3, <2>4
<1> QED
  BY <1>1, <1>2, <1>3, <1>4, <1>5, <1>6, <1>7, <1>8, <1>9 DEF Next, Gone

\* A handler is left without its job only where the job ran.
LEMMA WhereTheLateGo ==
    ASSUME QueueTyped, [Next]_vars, NEW n \in Messages
    PROVE  Late(n)' => Late(n) \/ Processed(n)
<1>z. 0 \notin Messages /\ lost \in [Slots -> 0 .. MaxMessages]
  BY DEF Messages, QueueTyped, LostTyped
<1>1. CASE lost' = lost
  BY <1>1 DEF Late
<1>2. ASSUME NEW s \in Slots, lost' = [lost EXCEPT ![s] = 0] PROVE Late(n)' => Late(n)
  BY <1>z, <1>2 DEF Late
<1>3. ASSUME NEW s \in Busy, lost' = [lost EXCEPT ![s] = active[s].m]
      PROVE  Late(n)' => Late(n) \/ Processed(n)
  BY <1>z, <1>3 DEF Late, Processed, Busy
<1>4. ASSUME NEW s \in Slots, Stall(s) PROVE Late(n)' => Late(n) \/ Processed(n)
  BY <1>1, <1>3, <1>4, Stalled
<1>5. ASSUME NEW s \in Slots, LateCommit(s) \/ LateFail(s) PROVE Late(n)' => Late(n)
  BY <1>2, <1>5 DEF LateCommit, LateFail
<1>6. ASSUME ~\E s \in Slots : Stall(s) \/ LateCommit(s) \/ LateFail(s) PROVE lost' = lost
  BY <1>6 DEF Next, Receive, AddTimesOut, Add, Answer, ConnectionLost, ListenerRestart, Take,
              Commit, Complete, Fail, Promote, vars, queueVars
<1> QED
  BY <1>1, <1>4, <1>5, <1>6

LEMMA WhereTheGoneGo ==
    ASSUME QueueTyped, QueueTyped', LateKnown, [Next]_vars, NEW n \in Messages
    PROVE  Gone(n)' => Gone(n) \/ (Len(waiting') < Len(waiting) /\ n = waiting[1].m)
BY WhereTheyGo, WhereTheLateGo DEF Gone, Off, Processed

LEMMA LateKnownStep == QueueTyped /\ QueueTyped' /\ LateKnown /\ [Next]_vars => LateKnown'
<1> SUFFICES ASSUME QueueTyped, QueueTyped', LateKnown, [Next]_vars, NEW n \in Messages, Late(n)'
             PROVE  Known(n)'
  BY DEF LateKnown
<1>1. Known(n)
  BY WhereTheLateGo, KnownParts DEF LateKnown, Off, Processed
<1> QED
  BY <1>1, WhereTheyGo

-----------------------------------------------------------------------------
(* The order of the feed.                                                  *)

OrderInv == LateKnown /\ LineOrder /\ SentOrder /\ WaitingOrder /\ ActiveOrder

LEMMA OrderInit == Init => OrderInv
<1> SUFFICES ASSUME Init PROVE OrderInv
  OBVIOUS
<1>1. Len(sent) = 0 /\ Len(answers) = 0 /\ Len(waiting) = 0 /\ Busy = {}
  BY DEF Init, Busy
<1> QED
  BY <1>1 DEF OrderInv, LineOrder, Ascending, SentOrder, IsAnswered, IsSent,
             WaitingOrder, ActiveOrder, LateKnown, Late, Messages, Init

\* The numbers in the line.
LEMMA LineNumbers ==
    ASSUME QueueTyped
    PROVE  /\ Len(sent) \in Nat /\ Len(answers) \in Nat /\ received \in Nat
           /\ \A i \in 1 .. Len(sent) : sent[i] \in Messages /\ sent[i] \in Nat /\ sent[i] <= received
           /\ \A i \in 1 .. Len(answers) :
                 answers[i] \in Messages /\ answers[i] \in Nat /\ answers[i] <= received
<1>1. Messages \subseteq Nat
  BY DEF Messages
<1>2. sent \in Seq(Messages) /\ answers \in Seq(Messages) /\ received \in Nat
  BY Numbers DEF QueueTyped, ListenerTyped
<1>3. Len(sent) \in Nat /\ Len(answers) \in Nat
  BY <1>2, LenProperties
<1>4. ASSUME NEW i \in 1 .. Len(sent) PROVE sent[i] \in Messages /\ sent[i] <= received
  BY <1>2, ElementOfSeq DEF QueueTyped, ListenerTyped
<1>5. ASSUME NEW i \in 1 .. Len(answers) PROVE answers[i] \in Messages /\ answers[i] <= received
  BY <1>2, ElementOfSeq DEF QueueTyped, ListenerTyped
<1> QED
  BY <1>1, <1>2, <1>3, <1>4, <1>5

\* What the other steps of the listener do to the line.
LEMMA Received ==
    ASSUME QueueTyped, Receive
    PROVE  /\ Len(sent') = Len(sent) + 1 /\ answers' = answers
           /\ \A i \in 1 .. Len(sent) : sent'[i] = sent[i]
           /\ sent'[Len(sent) + 1] = received + 1
<1>1. received + 1 \in Messages
  BY Numbers DEF QueueTyped, ListenerTyped, Receive, Messages
<1> QED
  BY <1>1, Appended DEF QueueTyped, ListenerTyped, Receive

LEMMA Answered ==
    ASSUME QueueTyped, Answer
    PROVE  /\ sent' = sent /\ Len(answers') = Len(answers) - 1
           /\ \A i \in 1 .. Len(answers) - 1 : answers'[i] = answers[i + 1]
BY Taken DEF QueueTyped, ListenerTyped, Answer

LEMMA SentAgain ==
    ASSUME QueueTyped, ConnectionLost
    PROVE  /\ Len(sent') = Len(answers) + Len(sent) /\ Len(answers') = 0
           /\ \A i \in 1 .. Len(answers) + Len(sent) :
                 sent'[i] = IF i <= Len(answers) THEN answers[i] ELSE sent[i - Len(answers)]
<1>1. sent' = answers \o sent /\ answers' = <<>>
  BY DEF ConnectionLost
<1> QED
  BY <1>1, ConcatProperties DEF QueueTyped, ListenerTyped

LEMMA Cleared ==
    ASSUME ListenerRestart
    PROVE  Len(sent') = 0 /\ Len(answers') = 0
BY DEF ListenerRestart

\* Steps that do not touch the line.
LEMMA LineKept ==
    ASSUME [Next]_vars,
           ~Receive, ~Add, ~Answer, ~ConnectionLost, ~ListenerRestart
    PROVE  sent' = sent /\ answers' = answers
BY DEF Next, AddTimesOut, Take, Commit, Complete, Fail, Stall, LateCommit, LateFail, Promote, vars,
       listenerVars

LEMMA LineStep == QueueTyped /\ LineOrder /\ [Next]_vars => LineOrder'
<1> SUFFICES ASSUME QueueTyped, LineOrder, [Next]_vars PROVE LineOrder'
  OBVIOUS
<1>n. /\ Len(sent) \in Nat /\ Len(answers) \in Nat /\ received \in Nat
      /\ \A i \in 1 .. Len(sent) : sent[i] \in Nat /\ sent[i] <= received
      /\ \A i \in 1 .. Len(answers) : answers[i] \in Nat /\ answers[i] <= received
  BY LineNumbers
<1>o. /\ \A i, j \in 1 .. Len(sent) : i < j => sent[i] < sent[j]
      /\ \A i, j \in 1 .. Len(answers) : i < j => answers[i] < answers[j]
      /\ \A i \in 1 .. Len(answers), j \in 1 .. Len(sent) : answers[i] < sent[j]
  BY DEF LineOrder, Ascending
<1> SUFFICES /\ \A i, j \in 1 .. Len(sent') : i < j => sent'[i] < sent'[j]
             /\ \A i, j \in 1 .. Len(answers') : i < j => answers'[i] < answers'[j]
             /\ \A i \in 1 .. Len(answers'), j \in 1 .. Len(sent') : answers'[i] < sent'[j]
  BY DEF LineOrder, Ascending
<1> DEFINE Goal == /\ \A i, j \in 1 .. Len(sent') : i < j => sent'[i] < sent'[j]
                   /\ \A i, j \in 1 .. Len(answers') : i < j => answers'[i] < answers'[j]
                   /\ \A i \in 1 .. Len(answers'), j \in 1 .. Len(sent') : answers'[i] < sent'[j]
<1>1. CASE Receive
  <2>1. /\ Len(sent') = Len(sent) + 1 /\ answers' = answers
        /\ \A i \in 1 .. Len(sent) : sent'[i] = sent[i]
        /\ sent'[Len(sent) + 1] = received + 1
    BY <1>1, Received
  <2>2. ASSUME NEW i \in 1 .. Len(sent'), NEW j \in 1 .. Len(sent'), i < j PROVE sent'[i] < sent'[j]
    <3>1. i \in 1 .. Len(sent) /\ (j \in 1 .. Len(sent) \/ j = Len(sent) + 1)
      BY <1>n, <2>1, <2>2
    <3>2. sent'[i] = sent[i] /\ sent[i] \in Nat /\ sent[i] <= received
      BY <1>n, <2>1, <3>1
    <3> QED
      BY <1>n, <1>o, <2>1, <2>2, <3>1, <3>2
  <2>3. \A i \in 1 .. Len(answers'), j \in 1 .. Len(sent') : answers'[i] < sent'[j]
    BY <1>n, <1>o, <2>1
  <2> QED
    BY <1>o, <2>1, <2>2, <2>3
<1>2. CASE Add
  <2>1. /\ Len(sent) >= 1
        /\ Len(sent') = Len(sent) - 1
        /\ \A i \in 1 .. Len(sent) - 1 : sent'[i] = sent[i + 1]
        /\ Len(answers') = Len(answers) + 1
        /\ \A i \in 1 .. Len(answers) : answers'[i] = answers[i]
        /\ answers'[Len(answers) + 1] = sent[1]
    BY <1>2, Added
  <2>2. ASSUME NEW i \in 1 .. Len(sent'), NEW j \in 1 .. Len(sent'), i < j PROVE sent'[i] < sent'[j]
    <3>1. /\ i + 1 \in 1 .. Len(sent) /\ j + 1 \in 1 .. Len(sent) /\ i + 1 < j + 1
          /\ sent'[i] = sent[i + 1] /\ sent'[j] = sent[j + 1]
      BY <1>n, <2>1, <2>2
    <3> QED
      BY <1>o, <3>1
  <2>3. ASSUME NEW i \in 1 .. Len(answers'), NEW j \in 1 .. Len(answers'), i < j
        PROVE  answers'[i] < answers'[j]
    <3>0. Len(answers) \in Nat /\ Len(sent) \in Nat /\ Len(answers') = Len(answers) + 1 /\ Len(sent) >= 1
      BY <1>n, <2>1
    <3>1. /\ i \in 1 .. Len(answers) /\ (j \in 1 .. Len(answers) \/ j = Len(answers) + 1)
          /\ 1 \in 1 .. Len(sent)
      BY <2>3, <3>0
    <3>2. answers'[i] = answers[i]
      BY <2>1, <3>1
    <3>3. CASE j \in 1 .. Len(answers)
      <4>1. answers'[j] = answers[j]
        BY <2>1, <3>3
      <4> QED
        BY <1>o, <2>3, <3>1, <3>2, <3>3, <4>1
    <3>4. CASE j = Len(answers) + 1
      <4>1. answers'[j] = sent[1]
        BY <2>1, <3>4
      <4> QED
        BY <1>o, <3>1, <3>2, <4>1
    <3> QED
      BY <3>1, <3>3, <3>4
  <2>4. ASSUME NEW i \in 1 .. Len(answers'), NEW j \in 1 .. Len(sent') PROVE answers'[i] < sent'[j]
    <3>1. sent'[j] = sent[j + 1] /\ j + 1 \in 1 .. Len(sent) /\ 1 < j + 1 /\ 1 \in 1 .. Len(sent)
      BY <1>n, <2>1
    <3>2. i \in 1 .. Len(answers) \/ i = Len(answers) + 1
      BY <1>n, <2>1
    <3> QED
      BY <1>o, <2>1, <3>1, <3>2
  <2> QED
    BY <2>2, <2>3, <2>4
<1>3. CASE Answer
  <2>1. /\ sent' = sent /\ Len(answers') = Len(answers) - 1
        /\ \A i \in 1 .. Len(answers) - 1 : answers'[i] = answers[i + 1]
    BY <1>3, Answered
  <2>1a. ASSUME NEW i \in 1 .. Len(answers')
        PROVE  i + 1 \in 1 .. Len(answers) /\ answers'[i] = answers[i + 1] /\ i \in Nat
    BY <1>n, <2>1
  <2>2. ASSUME NEW i \in 1 .. Len(answers'), NEW j \in 1 .. Len(answers'), i < j
        PROVE  answers'[i] < answers'[j]
    <3>1. i + 1 < j + 1
      BY <2>2, <2>1a
    <3> QED
      BY <1>o, <2>1a, <3>1
  <2>3. \A i \in 1 .. Len(answers'), j \in 1 .. Len(sent') : answers'[i] < sent'[j]
    BY <1>o, <2>1, <2>1a
  <2> QED
    BY <1>o, <2>1, <2>2, <2>3
<1>4. CASE ConnectionLost
  <2>1. /\ Len(sent') = Len(answers) + Len(sent) /\ Len(answers') = 0
        /\ \A i \in 1 .. Len(answers) + Len(sent) :
              sent'[i] = IF i <= Len(answers) THEN answers[i] ELSE sent[i - Len(answers)]
    BY <1>4, SentAgain
  <2>2. ASSUME NEW i \in 1 .. Len(sent'), NEW j \in 1 .. Len(sent'), i < j PROVE sent'[i] < sent'[j]
    <3>1. CASE j <= Len(answers)
      BY <1>n, <1>o, <2>1, <2>2, <3>1
    <3>2. CASE i <= Len(answers) /\ ~(j <= Len(answers))
      <4>1. i \in 1 .. Len(answers) /\ j - Len(answers) \in 1 .. Len(sent)
        BY <1>n, <2>1, <3>2
      <4> QED
        BY <1>o, <2>1, <3>2, <4>1
    <3>3. CASE ~(i <= Len(answers))
      <4>1. /\ i - Len(answers) \in 1 .. Len(sent) /\ j - Len(answers) \in 1 .. Len(sent)
            /\ i - Len(answers) < j - Len(answers) /\ ~(j <= Len(answers))
        BY <1>n, <2>1, <2>2, <3>3
      <4> QED
        BY <1>o, <2>1, <3>3, <4>1
    <3> QED
      BY <1>n, <2>2, <3>1, <3>2, <3>3
  <2> QED
    BY <2>1, <2>2
<1>5. CASE ListenerRestart
  BY <1>5, Cleared
<1>6. CASE ~Receive /\ ~Add /\ ~Answer /\ ~ConnectionLost /\ ~ListenerRestart
  BY <1>6, <1>o, LineKept
<1> QED
  BY <1>1, <1>2, <1>3, <1>4, <1>5, <1>6

LEMMA SentStep ==
    QueueTyped /\ QueueTyped' /\ LateKnown /\ LineOrder /\ SentOrder /\ [Next]_vars => SentOrder'
<1> SUFFICES ASSUME QueueTyped, QueueTyped', LateKnown, LineOrder, SentOrder, [Next]_vars
             PROVE  SentOrder'
  OBVIOUS
<1>n. /\ Len(sent) \in Nat /\ Len(answers) \in Nat /\ received \in Nat
      /\ \A i \in 1 .. Len(sent) : sent[i] \in Messages
      /\ \A i \in 1 .. Len(answers) : answers[i] \in Messages
  BY LineNumbers
<1>s. ASSUME NEW m \in Messages
      PROVE  /\ IsAnswered(m) => Known(m)
             /\ IsSent(m) => Known(m) \/ \A n \in Messages : Known(n) => n <= m
  BY DEF SentOrder
<1> DEFINE Goal(m) ==
        /\ IsAnswered(m)' => Known(m)'
        /\ IsSent(m)' => Known(m)' \/ \A n \in Messages : Known(n)' => n <= m
<1> SUFFICES ASSUME NEW m \in Messages PROVE Goal(m)
  BY DEF SentOrder
<1>k. \A n \in Messages : /\ Known(n) => Known(n)'
                          /\ Known(n)' => Known(n) \/ (Add /\ n = sent[1])
  BY WhereTheyGo
<1>1. CASE Receive
  <2>0. /\ Len(sent') = Len(sent) + 1 /\ answers' = answers
        /\ \A i \in 1 .. Len(sent) : sent'[i] = sent[i]
        /\ sent'[Len(sent) + 1] = received + 1
    BY <1>1, Received
  <2>1. IsAnswered(m)' <=> IsAnswered(m)
    BY <2>0 DEF IsAnswered
  <2>2. IsSent(m)' => IsSent(m) \/ m = received + 1
    BY <1>n, <2>0 DEF IsSent
  <2>3. \A n \in Messages : Known(n)' => Known(n)
    BY <1>1, <1>n, <1>k, <2>0, Added
  <2>4. m = received + 1 => \A n \in Messages : Known(n)' => n <= m
    BY <1>n, <2>3, KnownReceived DEF Messages
  <2> QED
    BY <1>s, <1>k, <2>1, <2>2, <2>3, <2>4
<1>2. CASE Add
  <2>0. /\ Len(sent) >= 1 /\ sent[1] \in Messages
        /\ Len(sent') = Len(sent) - 1
        /\ \A i \in 1 .. Len(sent) - 1 : sent'[i] = sent[i + 1]
        /\ Len(answers') = Len(answers) + 1
        /\ \A i \in 1 .. Len(answers) : answers'[i] = answers[i]
        /\ answers'[Len(answers) + 1] = sent[1]
    BY <1>2, Added
  <2>1. IsAnswered(m)' => IsAnswered(m) \/ m = sent[1]
    BY <1>n, <2>0 DEF IsAnswered
  <2>2. m = sent[1] => Known(m)'
    BY <1>2, AddKnown
  <2>3. IsSent(m)' => IsSent(m) /\ sent[1] < m
    <3>1. ASSUME NEW i \in 1 .. Len(sent'), sent'[i] = m PROVE IsSent(m) /\ sent[1] < m
      <4>1. /\ sent'[i] = sent[i + 1] /\ i + 1 \in 1 .. Len(sent) /\ 1 < i + 1
            /\ 1 \in 1 .. Len(sent)
        BY <1>n, <2>0
      <4> QED
        BY <3>1, <4>1 DEF IsSent, LineOrder, Ascending
    <3> QED
      BY <3>1 DEF IsSent
  <2>4. \A n \in Messages : Known(n)' => Known(n) \/ n = sent[1]
    BY <1>k
  <2>5. IsSent(m)' => Known(m)' \/ \A n \in Messages : Known(n)' => n <= m
    BY <1>s, <1>k, <2>0, <2>3, <2>4 DEF Messages
  <2> QED
    BY <1>s, <1>k, <2>1, <2>2, <2>5
<1>3. CASE ~Add /\ (\A x \in Messages : /\ IsAnswered(x)' => IsAnswered(x)
                                        /\ IsSent(x)' => IsSent(x) \/ IsAnswered(x))
  BY <1>3, <1>s, <1>k
<1>4. CASE ~Add /\ ~Receive
  <2>1. CASE Answer
    <3>1. /\ sent' = sent /\ Len(answers') = Len(answers) - 1
          /\ \A i \in 1 .. Len(answers) - 1 : answers'[i] = answers[i + 1]
      BY <2>1, Answered
    <3>2. ASSUME NEW i \in 1 .. Len(answers')
          PROVE  i + 1 \in 1 .. Len(answers) /\ answers'[i] = answers[i + 1]
      BY <1>n, <3>1
    <3> QED
      BY <1>3, <1>4, <3>1, <3>2 DEF IsAnswered, IsSent
  <2>2. CASE ConnectionLost
    <3>1. /\ Len(sent') = Len(answers) + Len(sent) /\ Len(answers') = 0
          /\ \A i \in 1 .. Len(answers) + Len(sent) :
                sent'[i] = IF i <= Len(answers) THEN answers[i] ELSE sent[i - Len(answers)]
      BY <2>2, SentAgain
    <3>2. ASSUME NEW i \in 1 .. Len(sent')
          PROVE  \/ i \in 1 .. Len(answers) /\ sent'[i] = answers[i]
                 \/ i - Len(answers) \in 1 .. Len(sent) /\ sent'[i] = sent[i - Len(answers)]
      BY <1>n, <3>1
    <3> QED
      BY <1>3, <1>4, <3>1, <3>2 DEF IsAnswered, IsSent
  <2>3. CASE ListenerRestart
    BY <1>3, <1>4, <2>3, Cleared DEF IsAnswered, IsSent
  <2>4. CASE ~Answer /\ ~ConnectionLost /\ ~ListenerRestart
    BY <1>3, <1>4, <2>4, LineKept DEF IsAnswered, IsSent
  <2> QED
    BY <2>1, <2>2, <2>3, <2>4
<1> QED
  BY <1>1, <1>2, <1>4

LEMMA WaitingStep ==
    QueueTyped /\ QueueTyped' /\ OrderInv /\ [Next]_vars => WaitingOrder'
<1> SUFFICES ASSUME QueueTyped, QueueTyped', OrderInv, [Next]_vars PROVE WaitingOrder'
  OBVIOUS
<1>n. /\ Len(waiting) \in Nat
      /\ \A i \in 1 .. Len(waiting) : waiting[i].m \in Messages /\ waiting[i].m \in Nat
  <2>1. Len(waiting) \in Nat
    BY LenProperties DEF QueueTyped, WaitingTyped
  <2>2. \A i \in 1 .. Len(waiting) : waiting[i] \in Job
    BY DEF QueueTyped, WaitingTyped, Runs
  <2> QED
    BY <2>1, <2>2, JobFields DEF Messages
<1>w. \A i \in 1 .. Len(waiting) :
          Fresh(waiting[i]) =>
              /\ \A k \in 1 .. i - 1 : waiting[k].m <= waiting[i].m
              /\ \A n \in Messages : Gone(n) => n <= waiting[i].m
  BY DEF OrderInv, WaitingOrder
<1>g. \A n \in Messages :
          Gone(n)' => Gone(n) \/ (Len(waiting') < Len(waiting) /\ n = waiting[1].m)
  BY WhereTheGoneGo DEF OrderInv
<1> DEFINE Ordered(i) ==
        Fresh(waiting'[i]) =>
            /\ \A k \in 1 .. i - 1 : waiting'[k].m <= waiting'[i].m
            /\ \A n \in Messages : Gone(n)' => n <= waiting'[i].m
<1> SUFFICES \A i \in 1 .. Len(waiting') : Ordered(i)
  BY DEF WaitingOrder, Fresh
<1>1. CASE Add
  <2>1. /\ Len(sent) \in Nat /\ Len(sent) >= 1 /\ sent[1] \in Messages
        /\ Len(waiting') = Len(waiting) + 1
        /\ \A i \in 1 .. Len(waiting) : waiting'[i] = waiting[i]
        /\ waiting'[Len(waiting) + 1].m = sent[1]
        /\ Fresh(waiting'[Len(waiting) + 1]) => ~Known(sent[1])
        /\ UNCHANGED <<delayed, active, lost, ended>> /\ Busy' = Busy
    BY <1>1, Added
  <2>2. \A n \in Messages : Gone(n)' <=> Gone(n)
    BY <2>1 DEF Gone, Off, Late
  <2>3. ASSUME NEW i \in 1 .. Len(waiting) PROVE Ordered(i)
    <3>1. waiting'[i] = waiting[i] /\ \A k \in 1 .. i - 1 : waiting'[k] = waiting[k]
      BY <1>n, <2>1
    <3> QED
      BY <1>w, <2>2, <3>1
  <2>4. Ordered(Len(waiting) + 1)
    <3> SUFFICES ASSUME ~Known(sent[1])
                 PROVE  /\ \A k \in 1 .. Len(waiting) : waiting[k].m <= sent[1]
                        /\ \A n \in Messages : Gone(n) => n <= sent[1]
      BY <1>n, <2>1, <2>2
    <3>1. IsSent(sent[1])
      BY <2>1 DEF IsSent
    <3>2. \A n \in Messages : Known(n) => n <= sent[1]
      BY <2>1, <3>1 DEF OrderInv, SentOrder
    <3>3. \A k \in 1 .. Len(waiting) : Waits(waiting[k].m)
      BY DEF Waits
    <3> QED
      BY <1>n, <3>2, <3>3, KnownParts DEF OrderInv, LateKnown, Gone
  <2>5. \A i \in 1 .. Len(waiting') : i \in 1 .. Len(waiting) \/ i = Len(waiting) + 1
    BY <1>n, <2>1
  <2> QED
    BY <2>3, <2>4, <2>5
<1>2. ASSUME NEW s \in Slots, Take(s), NEW i \in 1 .. Len(waiting') PROVE Ordered(i)
  <2>1. /\ Len(waiting) >= 1 /\ Len(waiting') = Len(waiting) - 1
        /\ \A k \in 1 .. Len(waiting) - 1 : waiting'[k] = waiting[k + 1]
    BY <1>2, SlotTaken
  <2>2. /\ i + 1 \in 1 .. Len(waiting) /\ waiting'[i] = waiting[i + 1]
        /\ 1 \in 1 .. (i + 1) - 1
        /\ \A k \in 1 .. i - 1 : k + 1 \in 1 .. (i + 1) - 1 /\ waiting'[k] = waiting[k + 1]
    BY <1>n, <2>1
  <2>3. \A n \in Messages : Gone(n)' => Gone(n) \/ n = waiting[1].m
    BY <1>g
  <2> QED
    BY <1>w, <2>2, <2>3
<1>3. ASSUME NEW s \in Slots, Stall(s), NEW i \in 1 .. Len(waiting') PROVE Ordered(i)
  <2>1. /\ s \in Busy /\ active[s].m \in Messages
        /\ \/ waiting' = waiting
           \/ /\ Len(waiting') = Len(waiting) + 1
              /\ waiting'[1].m = active[s].m /\ ~Fresh(waiting'[1])
              /\ \A k \in 2 .. Len(waiting) + 1 : waiting'[k] = waiting[k - 1]
    BY <1>3, Stalled
  <2>2. Gone(active[s].m)
    BY <2>1 DEF Gone, Off
  <2>3. \A n \in Messages : Gone(n)' => Gone(n)
    BY <1>g, <1>n, <2>1
  <2>4. CASE waiting' = waiting
    BY <1>w, <2>3, <2>4
  <2>5. CASE /\ Len(waiting') = Len(waiting) + 1
             /\ waiting'[1].m = active[s].m /\ ~Fresh(waiting'[1])
             /\ \A k \in 2 .. Len(waiting) + 1 : waiting'[k] = waiting[k - 1]
    <3>1. CASE i = 1
      BY <2>5, <3>1
    <3>2. CASE i # 1
      <4>1. i - 1 \in 1 .. Len(waiting) /\ waiting'[i] = waiting[i - 1]
        BY <1>n, <2>5, <3>2
      <4>2. \A k \in 2 .. i - 1 : k - 1 \in 1 .. (i - 1) - 1 /\ waiting'[k] = waiting[k - 1]
        BY <1>n, <2>5
      <4>3. ASSUME Fresh(waiting'[i]), NEW k \in 1 .. i - 1 PROVE waiting'[k].m <= waiting'[i].m
        <5>1. CASE k = 1
          BY <1>w, <2>1, <2>2, <2>5, <4>1, <4>3, <5>1
        <5>2. CASE k # 1
          <6>1. k \in 2 .. i - 1
            BY <5>2
          <6> QED
            BY <1>w, <4>1, <4>2, <4>3, <6>1
        <5> QED
          BY <5>1, <5>2
      <4>4. Fresh(waiting'[i]) => \A n \in Messages : Gone(n)' => n <= waiting'[i].m
        BY <1>w, <2>3, <4>1
      <4> QED
        BY <4>3, <4>4
    <3> QED
      BY <3>1, <3>2
  <2> QED
    BY <2>1, <2>4, <2>5
<1>4. ASSUME NEW job \in delayed, Promote(job), NEW i \in 1 .. Len(waiting') PROVE Ordered(i)
  <2>1. waiting' = Append(waiting, job) /\ job \in Job /\ job.made > 0
    BY <1>4 DEF Promote, QueueTyped, DelayedTyped, Runs
  <2>2. /\ Len(waiting') = Len(waiting) + 1
        /\ \A k \in 1 .. Len(waiting) : waiting'[k] = waiting[k]
        /\ waiting'[Len(waiting) + 1] = job
    BY <2>1, Appended DEF QueueTyped, WaitingTyped
  <2>3. ~Fresh(job)
    BY <2>1 DEF Fresh
  <2>4. \A n \in Messages : Gone(n)' => Gone(n)
    BY <1>g, <1>n, <2>2
  <2>5. CASE i \in 1 .. Len(waiting)
    <3>1. waiting'[i] = waiting[i] /\ \A k \in 1 .. i - 1 : waiting'[k] = waiting[k]
      BY <1>n, <2>2, <2>5
    <3> QED
      BY <1>w, <2>4, <2>5, <3>1
  <2>6. CASE i = Len(waiting) + 1
    BY <2>2, <2>3, <2>6
  <2> QED
    BY <1>n, <2>2, <2>5, <2>6
<1>5. CASE waiting' = waiting
  <2>1. \A n \in Messages : Gone(n)' => Gone(n)
    BY <1>5, <1>g, <1>n
  <2> QED
    BY <1>5, <1>w, <2>1
<1>6. ASSUME ~Add, ~\E s \in Slots : Take(s) \/ Stall(s), ~\E job \in delayed : Promote(job)
      PROVE  waiting' = waiting
  BY <1>6 DEF Next, Receive, AddTimesOut, Answer, ConnectionLost, ListenerRestart, Commit, Complete,
              Fail, LateCommit, LateFail, vars, queueVars
<1> QED
  BY <1>1, <1>2, <1>3, <1>4, <1>5, <1>6

LEMMA ActiveStep ==
    QueueTyped /\ QueueTyped' /\ OrderInv /\ [Next]_vars => ActiveOrder'
<1> SUFFICES ASSUME QueueTyped, QueueTyped', OrderInv, [Next]_vars PROVE ActiveOrder'
  OBVIOUS
<1>a. \A t \in Busy :
          Fresh(active[t]) /\ ~active[t].beside =>
              \A n \in Messages : Gone(n) => n <= active[t].m
  BY DEF OrderInv, ActiveOrder
<1>g. \A n \in Messages :
          Gone(n)' => Gone(n) \/ (Len(waiting') < Len(waiting) /\ n = waiting[1].m)
  BY WhereTheGoneGo DEF OrderInv
<1>n. Len(waiting) \in Nat
  BY LenProperties DEF QueueTyped, WaitingTyped
<1> DEFINE Ordered(t) ==
        Fresh(active'[t]) /\ ~active'[t].beside =>
            \A n \in Messages : Gone(n)' => n <= active'[t].m
<1> SUFFICES \A t \in Busy' : Ordered(t)
  BY DEF ActiveOrder, Fresh
<1>1. ASSUME NEW s \in Slots, Take(s) PROVE \A t \in Busy' : Ordered(t)
  <2>1. /\ Len(waiting) >= 1 /\ waiting[1] \in Job /\ Busy' = Busy \cup {s}
        /\ Alike(active'[s], waiting[1])
        /\ \A t \in Busy : /\ Alike(active'[t], active[t])
                           /\ ~active'[t].beside => ~active[t].beside /\ waiting[1].m <= active[t].m
    BY <1>1, SlotTaken
  <2>2. \A n \in Messages : Gone(n)' => Gone(n) \/ n = waiting[1].m
    BY <1>g
  <2>3. Ordered(s)
    <3>1. Fresh(waiting[1]) => \A n \in Messages : Gone(n) => n <= waiting[1].m
      <4>1. 1 \in 1 .. Len(waiting)
        BY <1>n, <2>1
      <4> QED
        BY <4>1 DEF OrderInv, WaitingOrder
    <3>2. Fresh(active'[s]) => Fresh(waiting[1])
      BY <2>1 DEF Fresh, Alike
    <3>3. waiting[1].m \in Nat /\ active'[s].m = waiting[1].m
      BY <2>1, JobFields DEF Alike, Messages
    <3> QED
      BY <2>2, <3>1, <3>2, <3>3
  <2>4. ASSUME NEW t \in Busy PROVE Ordered(t)
    <3>1. Fresh(active'[t]) => Fresh(active[t])
      BY <2>1 DEF Fresh, Alike
    <3>2. active'[t].m = active[t].m
      BY <2>1 DEF Alike
    <3> QED
      BY <1>a, <2>1, <2>2, <3>1, <3>2
  <2> QED
    BY <2>1, <2>3, <2>4
<1>2. ASSUME NEW s \in Slots, Complete(s) \/ Fail(s) \/ Stall(s) PROVE \A t \in Busy' : Ordered(t)
  <2>1. s \in Busy /\ active' = [active EXCEPT ![s] = NoJob]
    BY <1>2 DEF Complete, Fail, Stall
  <2>2. Busy' = Busy \ {s} /\ \A t \in Busy' : active'[t] = active[t]
    BY <2>1, SlotLeft
  <2>3. waiting' = waiting \/ Len(waiting') = Len(waiting) + 1
    BY <1>2, Stalled DEF Complete, Fail
  <2>4. \A n \in Messages : Gone(n)' => Gone(n)
    BY <1>g, <1>n, <2>3
  <2> QED
    BY <1>a, <2>2, <2>4
<1>3. ASSUME NEW s \in Slots, Commit(s) PROVE \A t \in Busy' : Ordered(t)
  <2>1. /\ s \in Busy /\ active' = [active EXCEPT ![s].done = TRUE] /\ waiting' = waiting
    BY <1>3 DEF Commit
  <2>2. active[s] \in Job /\ active \in [Slots -> Job \cup {NoJob}]
    BY <2>1, BusyJob DEF QueueTyped, ActiveTyped
  <2>3. PICK new : new = [active[s] EXCEPT !.done = TRUE]
    OBVIOUS
  <2>4. new \in Job /\ Alike(new, active[s]) /\ new.beside = active[s].beside
    BY <2>2, <2>3, WithDone
  <2>5. \A t \in Slots : active'[t] = IF t = s THEN new ELSE active[t]
    BY <2>1, <2>2, <2>3
  <2>6. \A n \in Messages : Gone(n)' => Gone(n)
    BY <1>g, <1>n, <2>1
  <2>7. ASSUME NEW t \in Busy' PROVE Ordered(t)
    <3>1. CASE t = s
      <4>1. active'[t] = new /\ (Fresh(new) => Fresh(active[s])) /\ new.m = active[s].m
        BY <2>1, <2>4, <2>5, <3>1 DEF Busy, Fresh, Alike
      <4> QED
        BY <1>a, <2>1, <2>4, <2>6, <4>1
    <3>2. CASE t # s
      <4>1. active'[t] = active[t] /\ t \in Busy
        BY <2>5, <3>2 DEF Busy
      <4> QED
        BY <1>a, <2>6, <4>1
    <3> QED
      BY <3>1, <3>2
  <2> QED
    BY <2>7
<1>4. ASSUME active' = active, waiting' = waiting \/ Len(waiting') = Len(waiting) + 1
      PROVE  \A t \in Busy' : Ordered(t)
  <2>1. Busy' = Busy
    BY <1>4 DEF Busy
  <2>2. \A n \in Messages : Gone(n)' => Gone(n)
    BY <1>g, <1>n, <1>4
  <2> QED
    BY <1>a, <1>4, <2>1, <2>2
<1>5. CASE Receive \/ AddTimesOut \/ Answer \/ ConnectionLost \/ ListenerRestart \/ UNCHANGED vars
  BY <1>4, <1>5 DEF Receive, AddTimesOut, Answer, ConnectionLost, ListenerRestart, vars, queueVars
<1>6. CASE Add
  BY <1>4, <1>6, Added
<1>7. ASSUME NEW job \in delayed, Promote(job) PROVE \A t \in Busy' : Ordered(t)
  <2>1. Len(waiting') = Len(waiting) + 1 /\ active' = active
    BY <1>7, Appended DEF Promote, QueueTyped, DelayedTyped, Runs, WaitingTyped
  <2> QED
    BY <1>4, <2>1
<1>8. ASSUME NEW s \in Slots, LateCommit(s) \/ LateFail(s) PROVE \A t \in Busy' : Ordered(t)
  BY <1>4, <1>8 DEF LateCommit, LateFail
<1> QED
  BY <1>1, <1>2, <1>3, <1>5, <1>6, <1>7, <1>8 DEF Next

LEMMA IngestInvariant == Spec => [](QueueTyped /\ OrderInv)
<1>1. QueueTyped /\ QueueTyped' /\ OrderInv /\ [Next]_vars => OrderInv'
  BY LateKnownStep, LineStep, SentStep, WaitingStep, ActiveStep DEF OrderInv
<1> QED
  BY <1>1, TypeInit, TypeStep, OrderInit, PTL DEF Spec

\* For any number of slots, messages and faults, the database goes back to an
\* older message only behind a retry, a stall, a repeated add or a message that
\* ran beside it.
THEOREM OlderOverwritesOnlyIfReorderedAlways == Spec => OlderOverwritesOnlyIfReordered
<1> DEFINE Reordered ==
        \A s \in Slots :
            Commit(s) /\ active[s].m < db =>
                \/ active[s].made > 0 \/ active[s].stalls > 0 \/ active[s].again
                \/ active[s].beside
<1>1. QueueTyped /\ OrderInv => Reordered
  <2> SUFFICES ASSUME QueueTyped, OrderInv, NEW s \in Slots, Commit(s), active[s].m < db,
                      ~(active[s].made > 0), ~(active[s].stalls > 0), ~active[s].again,
                      ~active[s].beside
               PROVE  FALSE
    OBVIOUS
  <2>1. s \in Busy /\ active[s] \in Job
    BY BusyJob DEF Commit
  <2>2. active[s].m \in Messages /\ active[s].made \in Nat /\ active[s].stalls \in Nat
    BY <2>1, JobFields, Numbers
  <2>3. Fresh(active[s])
    BY <2>2 DEF Fresh
  <2>4. db \in ended /\ db \in Messages
    BY <2>2, Numbers DEF QueueTyped, EndedTyped, ListenerTyped, Messages
  <2>5. db <= active[s].m
    BY <2>1, <2>3, <2>4 DEF OrderInv, ActiveOrder, Gone, Off
  <2> QED
    BY <2>2, <2>4, <2>5 DEF Messages
<1> DEFINE Moves ==
        \E s \in Slots :
            \/ LateCommit(s)
            \/ /\ Commit(s)
               /\ \/ active[s].made > 0 \/ active[s].stalls > 0 \/ active[s].again
                  \/ active[s].beside
<1>2. ASSUME QueueTyped, OrderInv, [Next]_vars, db' < db PROVE Moves
  <2>1. db \in Int
    <3>1. \A n \in 1 .. received : n \in Int
      OBVIOUS
    <3> QED
      BY <1>2, <3>1 DEF QueueTyped, EndedTyped
  <2>2. ASSUME db' = db PROVE FALSE
    BY <1>2, <2>1, <2>2
  <2>3. ~UNCHANGED vars /\ Next
    BY <1>2, <2>2 DEF vars
  <2>4. \E s \in Slots : Commit(s) \/ LateCommit(s)
    BY <2>2, <2>3 DEF Next, Receive, AddTimesOut, Add, Answer, ConnectionLost, ListenerRestart,
                      Take, Complete, Fail, Stall, LateFail, Promote, vars
  <2>5. ASSUME NEW s \in Slots, Commit(s) PROVE active[s].m < db
    BY <1>2, <2>5 DEF Commit
  <2> QED
    BY <1>1, <1>2, <2>4, <2>5
<1>3. QueueTyped /\ OrderInv /\ [Next]_vars => [db' < db => Moves]_vars
  BY <1>2
<1> QED
  BY <1>3, IngestInvariant, PTL DEF Spec, OlderOverwritesOnlyIfReordered
=============================================================================
