SPECIFICATION Spec
CONSTANTS
    MaxChanges = 2
    MaxDrops = 1
    MaxOutages = 1
    MaxMoves = 2
    Nothing = Nothing
CHECK_DEADLOCK FALSE
INVARIANTS
    OwedIsComing
    NoBadgeMeansLive
PROPERTY
    UpdatesEnd
