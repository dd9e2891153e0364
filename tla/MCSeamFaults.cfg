SPECIFICATION Spec
CONSTANTS
    Guests = {g1}
    Listings = {l1}
    Ids <- MCIds
    Stays <- MCStays
    Rates = {1}
    HoldTtl = 0
    DayLength = 1
    NoRow = NoRow
    Clients = {q1}
    Consumers = {c1,c2}
    ExpiryTimers = {x1}
    CompletionTimers = {}
    Relays = {p1}
    Workers = {w1,w2}
    BatchSize = 1
    Attempts = 1
    MaxStalls = 1
    Nobody = Nobody
    MaxTime = 1
    MaxApiFaults = 1
    MaxAborts = 1
    MaxWorkerCrashes = 1
    MaxLostLocks = 1
    NoResult = NoResult
INVARIANTS
    ConfirmedMoneyStays
    SuccessesWereTaken
PROPERTY
    ModulesAssumeRight
CONSTRAINTS MCOneFault MCListingsRest MCSecondConsumer
SYMMETRY MCSymmetry
