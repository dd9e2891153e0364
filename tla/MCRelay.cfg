SPECIFICATION FairSpec
CONSTANTS
    Ids <- MCIds
    Relays = {p1, p2}
    BatchSize = 2
    MaxAborts = 2
CHECK_DEADLOCK FALSE
INVARIANTS
    TypeOK
    MarkedIsQueued
    DuplicatesComeFromAborts
PROPERTY
    EveryEventIsQueued
