SPECIFICATION FairSpec
CONSTANTS
    Ids = {r1,r2}
    Workers = {w1,w2}
    Attempts = 2
    MaxStalls = 1
    MaxCrashes = 2
    MaxLostLocks = 0
    Nobody = Nobody
INVARIANTS
    TypeOK
    RecordFollowsMoney
    ChargesAreAccountedFor
PROPERTIES
    PaymentMovesForward
    AccountPromise
    JobsEnd
