SPECIFICATION FairSpec
CONSTANTS
    Guests = {g1}
    Listings = {l1}
    Ids = {r1}
    Requests = {q1}
    ExpiryTimers = {x1}
    CompletionTimers = {c1}
    Stays <- MCStays
    Rates = {1}
    HoldTtl = 1
    DayLength = 2
    MaxTime = 3
    MaxCrashes = 2
    NoRow = NoRow
INVARIANTS
    TypeOK
    OnlyPaidStays
    RefundsAreOwed
    AnnouncementsAreTrue
PROPERTY
    BookingsEnd
