----------------------------- MODULE MCBooking -----------------------------
(* Instances of Booking for TLC. *)
EXTENDS Booking, TLC

\* Ranges that overlap, touch (one ends when the other begins) and are empty.
MCStays == {[checkIn |-> 0, checkOut |-> 1], [checkIn |-> 0, checkOut |-> 2],
            [checkIn |-> 1, checkOut |-> 2], [checkIn |-> 1, checkOut |-> 1]}

\* The one range that concurrent requests fight over.
MCOneStay == {[checkIn |-> 0, checkOut |-> 2]}

MCSymmetry == Permutations(Guests) \cup Permutations(Requests) \cup Permutations(Ids)
=============================================================================
