CONSTANTS
    Factions = {f1, f2}
    Levels = {1, 2, 4}
    Threshold = 1
    NoFaction = NoFaction
    NoGap = NoGap
SPECIFICATION Spec
INVARIANT ClearedAfterEntered
