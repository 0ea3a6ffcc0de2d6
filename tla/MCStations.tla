----------------------------- MODULE MCStations -----------------------------
(* Stations with two jobs at once, two systems, two market ids and two lists *)
(* of services.                                                              *)
EXTENDS Stations, TLC

\* Services come with a Docked message at a port, carriers have those of earlier
\* rows.  A carrier's name comes with its characteristics, without its kind, or from
\* a Location message.  A powerplay state comes without a station, with a port,
\* or, if it is Stronghold, with a carrier.
MCFeed ==
    {m \in StationMessages :
        CASE m.name = Undefined -> m.power # Undefined
          [] m.name = "Port" -> /\ m.traits = {}
                                /\ m.event = "Docked" \/ m.services = Undefined
                                /\ m.power \in {Undefined, "Other"}
          [] OTHER -> /\ m.services = Undefined
                      /\ IF m.event = "Docked"
                         THEN m.name # Canonical /\ "pads" \in m.traits
                         ELSE m.traits = {"kind"} /\ m.power \in {Undefined, "Stronghold"}}

Symmetry == Permutations(Workers) \cup Permutations(Systems) \cup Permutations(Markets)
            \cup Permutations(Services)
=============================================================================
