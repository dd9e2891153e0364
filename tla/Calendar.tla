------------------------------ MODULE Calendar ------------------------------
(***************************************************************************)
(* What the booking component promises of a listing's calendar, and        *)
(* nothing of how: a claim is taken only on a free range, it stands until  *)
(* it is given up, and once given up it never stands again.  The dates and *)
(* the listing of a claim never change.                                    *)
(***************************************************************************)
EXTENDS Integers

CONSTANTS
    Ids,       \* claims that can ever be taken
    Listings,
    Stays,     \* ranges [checkIn, checkOut]
    NoClaim    \* a claim not yet taken

VARIABLE claim

Clash(s, t) == s.checkIn < t.checkOut /\ t.checkIn < s.checkOut

Standing == {r \in Ids : claim[r] # NoClaim /\ claim[r].state = "standing"}

Init == claim = [r \in Ids |-> NoClaim]

Free(l, s) == \A q \in Standing : claim[q].listing = l => ~Clash(claim[q].stay, s)

Take(r, l, s) ==
    /\ claim[r] = NoClaim
    /\ Free(l, s)
    /\ claim' = [claim EXCEPT ![r] = [listing |-> l, stay |-> s, state |-> "standing"]]

\* Several claims may be given up at once: a sweep releases a set of rows.
GiveUp(R) ==
    claim' = [r \in Ids |-> IF r \in R THEN [claim[r] EXCEPT !.state = "released"] ELSE claim[r]]

Next ==
    \/ \E r \in Ids, l \in Listings, s \in Stays : Take(r, l, s)
    \/ \E R \in SUBSET Standing : GiveUp(R)

Spec == Init /\ [][Next]_claim
=============================================================================
