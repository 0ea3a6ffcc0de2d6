--------------------------- MODULE MCSystemEvents ---------------------------
(* SystemEvents with two factions, one state and two types of conflict.  A  *)
(* message has states, conflicts or powers: no code relates one to another, *)
(* and each has factions that come and go.                                  *)
EXTENDS SystemEvents, TLC
MCMessages ==
    {m \in PossibleMessages :
        LET kinds == {m.conflicts # [p \in {} |-> NoConflict],
                      m.powers \cup m.contested # {}}
            stateless == \A f \in DOMAIN m.factions : m.factions[f] = NoStates IN
        /\ \A p \in DOMAIN m.conflicts : <<p[2], p[1]>> \notin DOMAIN m.conflicts
        /\ kinds = {FALSE} \/ (stateless /\ kinds = {TRUE, FALSE})}
Symmetry == Permutations(Factions)
=============================================================================
