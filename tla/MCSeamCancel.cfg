SPECIFICATION FairSpec
CONSTANTS
    Guests = {g1}
    Listings = {l1}
    Ids <- MCIds
    Stays <- MCStays
    Rates = {1}
    HoldTtl = 1
    DayLength = 1
    NoRow = NoRow
    Clients = {q1}
    Consumers = {c1}
    ExpiryTimers = {x1}
    CompletionTimers = {}
    Relays = {p1}
    Workers = {w1}
    BatchSize = 1
    Attempts = 1
    MaxStalls = 1
    Nobody = Nobody
    MaxTime = 2
    MaxApiFaults = 0
    MaxAborts = 0
    MaxWorkerCrashes = 0
    MaxLostLocks = 0
    NoResult = NoResult
PROPERTY
    CancelledIsRefunded
