CONSTANTS
    Owner = owner
    Other = other
    Guest = guest
    Mine = mine
    Theirs = theirs
    New = new
    Block1 = b1
    Block2 = b2
    Stay1 = s1
    Stay2 = s2
    Nothing = Nothing
    MaxRequests = 2
    MaxMoves = 3
SPECIFICATION Spec
CHECK_DEADLOCK FALSE
INVARIANTS
    ReviewsAreEarned
    RefusalsStayTrue
    OwnWritesShow
PROPERTIES
    BookedListingsStay
    OnlyOwnersChange
