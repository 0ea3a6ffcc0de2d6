--------------------------- MODULE OutboxDelivery ---------------------------
(***************************************************************************)
(* What the transactional outbox promises: an event that a transaction     *)
(* stores is kept until it has been delivered, it may be delivered more    *)
(* than once, and it is never delivered before it is stored or after it is *)
(* gone.  Only an event without a recipient may go undelivered.            *)
(***************************************************************************)
CONSTANTS
    Events,      \* outbox rows
    Targets,     \* Redis channels
    MustDeliver  \* the events of Events that always have a recipient

VARIABLES
    store,       \* per event: "absent", "stored" or "gone"
    delivered    \* per event: the channels it was delivered to

TypeOK ==
    /\ store \in [Events -> {"absent", "stored", "gone"}]
    /\ delivered \in [Events -> SUBSET Targets]

Init ==
    /\ store = [e \in Events |-> "absent"]
    /\ delivered = [e \in Events |-> {}]

\* A transaction commits with the events of S.
Store(S) ==
    /\ \A e \in S : store[e] = "absent"
    /\ store' = [e \in Events |-> IF e \in S THEN "stored" ELSE store[e]]
    /\ UNCHANGED delivered

Deliver(e, x) ==
    /\ store[e] = "stored"
    /\ delivered' = [delivered EXCEPT ![e] = @ \cup {x}]
    /\ UNCHANGED store

\* The events of S are deleted, delivered where they had to be.
Retire(S) ==
    /\ \A e \in S : store[e] = "stored" /\ (e \in MustDeliver => delivered[e] # {})
    /\ store' = [e \in Events |-> IF e \in S THEN "gone" ELSE store[e]]
    /\ UNCHANGED delivered

Next ==
    \/ \E S \in SUBSET Events : Store(S) \/ Retire(S)
    \/ \E e \in Events, x \in Targets : Deliver(e, x)

Spec == Init /\ [][Next]_<<store, delivered>>

=============================================================================
