SPECIFICATION Spec
CONSTANTS
    Factions = {f1, f2}
    StateNames = {boom}
    ConflictTypes = {war, election}
    Powers = {p1}
    Messages <- MCMessages
    MaxStart = 2
SYMMETRY Symmetry
INVARIANT TypeOK
INVARIANT EventsTellTheTables
PROPERTY EveryWordIsNews
