CONSTANTS
    Factions = {f1, f2, f3}
    Levels = {1, 2, 4}
    Threshold = 1
    NoFaction = NoFaction
    NoGap = NoGap
SPECIFICATION Spec
SYMMETRY Symmetry
INVARIANT TypeOK
INVARIANT ThreatRowIsCurrent
INVARIANT EventsAlternate
INVARIANT AnnouncedIsCurrent
INVARIANT OrdinaryMessageAnnouncesOnce
