------------------------------- MODULE MCSeam -------------------------------
(* Instances of Seam for TLC. *)
EXTENDS Seam, TLC, FiniteSets

MCIds == 1 .. 1

MCStays == {[checkIn |-> 0, checkOut |-> 1]}

\* Bound: one fault in a behaviour, whichever it is.
MCOneFault == apiFaults + aborts + workerCrashes + lostLocks + resultLocksLost <= 1

\* Bound: a listing that is booked is not paused again.  What that changes is within Booking.
MCListingsRest ==
    \A r \in Ids, l \in Listings : r \in B!Booked => listing[l].active

\* Bound: a second consumer joins in once the first has lost its lock.  Two results settled at
\* once, whatever they say, are within Booking.
MCSecondConsumer ==
    resultLocksLost = 0 => Cardinality({c \in Consumers : serving[c] # NoResult}) <= 1

MCSymmetry == Permutations(Workers) \cup Permutations(Consumers)
=============================================================================
