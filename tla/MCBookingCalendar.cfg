SPECIFICATION Spec
CONSTANTS
    Guests = {g1}
    Listings = {l1}
    Ids = {r1,r2}
    Requests = {q1,q2}
    ExpiryTimers = {x1}
    CompletionTimers = {}
    Stays <- MCOneStay
    Rates = {1}
    HoldTtl = 1
    DayLength = 2
    MaxTime = 2
    MaxCrashes = 0
    NoRow = NoRow
SYMMETRY MCSymmetry
INVARIANT
    NoOverlap
PROPERTIES
    ReleasedStaysReleased
    CalendarPromise
