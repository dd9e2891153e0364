SPECIFICATION Spec
CONSTANTS
    Holds <- MCHolds
    MaxTroubles = 1
    MaxVisits = 2
    Nothing = Nothing
CHECK_DEADLOCK FALSE
INVARIANT
    TakenMeansSomebodyElse
